---------------------------- MODULE Spec2Model ----------------------------
(***************************************************************************)
(* Reliable event delivery subsystem of typebot-conect (bot_gesto):        *)
(*   worker.py    - consumer-group worker pool, reclaimer, shutdown        *)
(*   fb_google.py - delivery client (per-sink retry, fan-out, wrapper)     *)
(*   db.py        - idempotent store (save_lead)                           *)
(*   utils.py     - routing of an entry to Lead / Subscribe                *)
(*                                                                         *)
(* Time is counted in ticks; one tick is the unit in which the idle time   *)
(* of a pending entry is measured.  The asyncio event loop is cooperative: *)
(* a coroutine other than process_batch runs only while process_batch is   *)
(* suspended at one of its awaits (LoopFree).  Database transactions run   *)
(* in executor threads and advance independently of the event loop.        *)
(***************************************************************************)
EXTENDS Integers, Sequences, FiniteSets, TLC

VARIABLES
    stream,        \* Redis stream: sequence of payloads, entry id = index
    lastDelivered, \* consumer-group cursor (last id handed out by ">")
    pel,           \* pending-entries list: pending id -> idle ticks
    running,       \* worker.py global flag
    mainPc,        \* position of process_batch
    local_queue,   \* asyncio.Queue of entry ids
    in_flight,     \* list of per-entry tasks (records)
    reclaimer,     \* position of _periodic_autoclaim
    store,         \* leads table: event_key -> its row (and their number) or NoRec
    cfg,           \* environment configuration of the process
    nextAid,       \* number of per-entry tasks created so far
    sends,         \* history: entry id -> set of <<sink, event>> POSTed
    started,       \* history: entry id -> processing attempts started (up to 2)
    outcomes,      \* history: entry id -> outcomes of its finished attempts
    sink,          \* the running _post_with_retry call (SpecSink)
    delivery,      \* the running send_event_with_retry call (SpecDelivery)
    pixel,         \* the event ids built for one entry (SpecPixel, SpecEventId)
    sessions,      \* the running save_lead calls (SpecStore)
    bootstrap      \* the stream key and group in Redis, the reply to XGROUP CREATE

vars == <<stream, lastDelivered, pel, running, mainPc, local_queue, in_flight,
          reclaimer, store, cfg, nextAid, sends, started, outcomes, sink, delivery, pixel, sessions, bootstrap>>

workerVars == <<stream, lastDelivered, pel, running, mainPc, local_queue,
                in_flight, reclaimer, store, cfg, nextAid, sends, started, outcomes,
                bootstrap>>

-----------------------------------------------------------------------------
(* Bounds of the model *)
MaxEntries == 2      \* entries appended to the stream in one run
MaxAttempts == 3     \* per-entry tasks created in one run
MaxQueue == 2        \* depth of the local queue explored
MaxCalls == 3        \* save_lead calls made in one run (SpecStore)

(* Configuration (environment variables), in model units *)
Concurrencies == {1, 2}      \* env WORKER_CONCURRENCY
READ_COUNT == 2              \* env WORKER_READ_COUNT
AUTOCLAIM_MIN_IDLE_MS == 2   \* env AUTOCLAIM_MIN_IDLE_MS, in ticks
READ_BLOCK_MS == 1           \* env WORKER_READ_BLOCK_MS, in ticks
AUTOCLAIM_BATCH == 2         \* env AUTOCLAIM_BATCH
FanoutRetries == 5           \* send_event_with_retry(retries=5)
SaveRetries == 3             \* save_lead(retries=3)

WORKER_CONCURRENCY_off_by_one == cfg.concurrency + 1
WORKER_CONCURRENCY == cfg.concurrency

NoRec == [none |-> TRUE]
NoKey == "nokey"
Keys == {"k1"}

-----------------------------------------------------------------------------
(* utils.py: routing *)
RouteKeys == {"botb", "vip", "vip-botb", "other", ""}
SEND_LEAD_ON == "botb"
SEND_SUBSCRIBE_ON == "vip"

\* `tok in r` for the route keys of the model
Contains(r, tok) ==
    \/ r = tok
    \/ r = "vip-botb" /\ tok \in {"vip", "botb"}

derive_event_from_route(route_key) ==
    IF SEND_SUBSCRIBE_ON # "" /\ Contains(route_key, SEND_SUBSCRIBE_ON) THEN "Subscribe"
    ELSE IF SEND_LEAD_ON # "" /\ Contains(route_key, SEND_LEAD_ON) THEN "Lead"
    ELSE "None"

should_send_event(event_name) ==
    IF event_name = "None" THEN FALSE
    ELSE event_name \in {"Lead", "Subscribe"}

-----------------------------------------------------------------------------
(* utils.py: event identity.  A string is a sequence of characters; the    *)
(* clock counts seconds, and a day has Day of them.                         *)
Day == 2              \* seconds in a day
MaxNow == 9           \* latest clock value
DROP_OLD_DAYS == 2    \* env FB_DROP_OLDER_THAN_DAYS

Times == 0..MaxNow

\* int((datetime.now(timezone.utc) - timedelta(days=DROP_OLD_DAYS - 1)).timestamp())
min_ts(now) == now - (DROP_OLD_DAYS - 1) * Day

clamp_event_time_unclamped(ts, now) ==
    IF ts = 0 THEN now ELSE ts
\* clamp_event_time(ts), called when the clock reads `now`; ts = 0 stands
\* for 0 and for None (`if not ts`)
clamp_event_time(ts, now) ==
    IF ts = 0 THEN now
    ELSE IF ts > min_ts(now) THEN ts ELSE min_ts(now)

\* str.lower() on the characters of the model
lower(ch) ==
    CASE ch = "A" -> "a"
      [] ch = "Lead" -> "lead"
      [] ch = "Subscribe" -> "subscribe"
      [] OTHER -> ch

RECURSIVE strip(_)
\* str.strip(): leading and trailing blanks removed
strip(str) ==
    IF str = <<>> THEN <<>>
    ELSE IF Head(str) = " " THEN strip(Tail(str))
    ELSE IF str[Len(str)] = " " THEN strip(SubSeq(str, 1, Len(str) - 1))
    ELSE str

norm_no_lower(str) == strip(str)
\* _norm(s): (s or "").strip().lower()
norm(str) == [j \in DOMAIN strip(str) |-> lower(strip(str)[j])]

RECURSIVE join(_, _)
\* sep.join(keys)
join(sep, keys) ==
    IF keys = <<>> THEN <<>>
    ELSE IF Len(keys) = 1 THEN keys[1]
    ELSE keys[1] \o <<sep>> \o join(sep, Tail(keys))

EVENT_ID_SALT == <<"salt">>

\* the fields of a lead build_event_id reads, in the order of its key list
IdentityFields ==
    <<"telegram_id", "external_id", "click_id", "fbp", "fbc", "gclid", "gbraid", "wbraid">>

\* _sha256 of a string: the digest is taken to be collision-free, so an id is
\* represented by the string it is the digest of
sha256(str) == str

\* build_event_id(event_name, lead, event_time); an absent or empty field of
\* the lead is the empty string (`lead.get(...) or ""`)
build_event_id(event_name, lead, event_time) ==
    sha256(join("|",
        <<norm(<<event_name>>)>>
        \o [j \in DOMAIN IdentityFields |-> norm(lead[IdentityFields[j]])]
        \o << <<ToString(event_time)>>, EVENT_ID_SALT >>))

\* build_fb_payload, lines 139-141: the event id of the payload built from
\* `lead` when the clock reads `now`; event_time = 0 stands for an absent one
build_fb_payload(event_name, lead, now) ==
    LET raw_time == IF lead.event_time # 0 THEN lead.event_time ELSE now
        etime == clamp_event_time(raw_time, now)
    IN [event_name |-> event_name, event_time |-> etime,
        event_id |-> build_event_id(event_name, lead, etime)]

-----------------------------------------------------------------------------
(* Payloads of stream entries.  kind "bad": the payload field is not JSON;  *)
(* kind "obj": a non-empty JSON object.                                     *)
EmptyMap == [k \in {} |-> 0]

Payloads ==
    {[kind |-> "bad", route_key |-> "", event_key |-> NoKey,
      user_data |-> EmptyMap, custom_data |-> EmptyMap]}
    \cup [kind : {"obj"}, route_key : {"botb", "vip", "other"},
          event_key : Keys \cup {NoKey},
          user_data : {EmptyMap}, custom_data : {EmptyMap}]

\* _parse_payload: json.loads(entry_data.get("payload", "{}")), None when it
\* raises.  The value is named by its JSON kind; "dict" is a non-empty object
parse_payload(p) ==
    CASE p.kind = "bad" -> "None"
      [] p.kind = "null" -> "None"
      [] p.kind = "missing" -> "empty_obj"
      [] p.kind = "obj" -> "dict"
      [] OTHER -> p.kind

\* `not ld` (line 89)
Falsy(ld) == ld \in {"None", "empty_obj", "empty_array", "empty_string", "zero"}

\* the value has a .get method (line 94)
IsDict(ld) == ld \in {"dict", "empty_obj"}

EventOf(e) == derive_event_from_route(stream[e].route_key)


-----------------------------------------------------------------------------
(* fb_google.py: fan-out.  A per-sink result is "ok" ({"ok": True}),       *)
(* "fail" ({"ok": False, "error": ...}) or "skip" ({"skip": True}).         *)
Configs == [fb : BOOLEAN, google : BOOLEAN, auto : BOOLEAN, concurrency : Concurrencies]

\* keys of the dict send_event_to_all returns for event et
ResultKeys(c, et, suppress) ==
    {"facebook"}
    \cup (IF c.google THEN {"google"} ELSE {})
    \cup (IF et = "Lead" /\ c.auto /\ ~suppress
          THEN {"facebook_subscribe"}
               \cup (IF c.google THEN {"google_subscribe"} ELSE {})
          ELSE {})

SinkOf(k) == IF k \in {"facebook", "facebook_subscribe"} THEN "facebook" ELSE "google"
SentEvent(k, et) == IF k \in {"facebook_subscribe", "google_subscribe"} THEN "Subscribe" ELSE et

\* send_event_fb returns the skip result when the credentials are missing;
\* send_event_google is only called with GOOGLE_ENABLED
SinkResults(c, k) ==
    IF SinkOf(k) = "facebook" /\ ~c.fb THEN {"skip"} ELSE {"ok", "fail"}

\* the dicts send_event_to_all can return
send_event_to_all(c, et, suppress) ==
    {r \in [ResultKeys(c, et, suppress) -> {"ok", "fail", "skip"}] :
        \A k \in DOMAIN r : r[k] \in SinkResults(c, k)}

AnyOk_all(results) == \A k \in DOMAIN results : results[k] = "ok"
\* send_event_with_retry, line 251: any(v.get("ok") for v in results.values())
AnyOk(results) == \E k \in DOMAIN results : results[k] = "ok"

\* the POSTs one fan-out with these results made
PostsOf(results, et) ==
    {<<SinkOf(k), SentEvent(k, et)>> : k \in {x \in DOMAIN results : results[x] # "skip"}}

-----------------------------------------------------------------------------
(* db.py: the leads table and save_lead *)
NoEventRecord == [status |-> "none"]

Merge(a, b) == [k \in DOMAIN a \cup DOMAIN b |-> IF k \in DOMAIN b THEN b[k] ELSE a[k]]

\* data.get("user_data") or {"telegram_id": telegram_id}
normalized_ud(data) ==
    IF data.user_data = EmptyMap THEN [telegram_id |-> 1] ELSE data.user_data

compute_priority_score(user_data, custom_data) ==
    (IF "username" \in DOMAIN user_data THEN 2 ELSE 0)
    + (IF "first_name" \in DOMAIN user_data THEN 1 ELSE 0)
    + (IF "premium" \in DOMAIN user_data THEN 3 ELSE 0)

\* custom = data.get("custom_data") or {}; custom["priority_score"] = ...
custom_of(data) ==
    Merge(data.custom_data,
          [priority_score |-> compute_priority_score(normalized_ud(data), data.custom_data)])

InsertedRow_sent(data, event_record) ==
    [none |-> FALSE,
     rows |-> 1,
     user_data |-> normalized_ud(data),
     custom_data |-> custom_of(data),
     event_history |-> IF event_record # NoEventRecord THEN <<event_record>> ELSE <<>>,
     sent |-> (event_record # NoEventRecord),
     last_sent_at |-> (event_record.status = "success"),
     last_attempt_at |-> (event_record # NoEventRecord /\ event_record.status # "success")]
\* the row session.add(lead) inserts (lines 208-231)
InsertedRow(data, event_record) ==
    [none |-> FALSE,
     rows |-> 1,
     user_data |-> normalized_ud(data),
     custom_data |-> custom_of(data),
     event_history |-> IF event_record # NoEventRecord THEN <<event_record>> ELSE <<>>,
     sent |-> (event_record.status = "success"),
     last_sent_at |-> (event_record.status = "success"),
     last_attempt_at |-> (event_record # NoEventRecord /\ event_record.status # "success")]

\* lines 203-205: eh = lead.event_history or []; eh.append(...);
\* lead.event_history = eh.  A non-empty loaded list is mutated in place and
\* assigned back to the attribute it came from, so the unit of work compares
\* the list with itself, finds the JSONB column unchanged and leaves it out of
\* the UPDATE; an empty loaded list is replaced by a new list, which is written.
HistoryWritten(snap, event_record) ==
    event_record # NoEventRecord /\ snap.event_history = <<>>

SentAfterUpdate_status(cur, snap, event_record) ==
    IF event_record # NoEventRecord THEN event_record.status = "success" ELSE cur.sent
\* lines 225-228: lead.sent = True only in the success branch; the column is
\* in the UPDATE only when the session changed it
SentAfterUpdate(cur, snap, event_record) ==
    IF event_record.status = "success" /\ ~snap.sent THEN TRUE ELSE cur.sent

event_key_unique_off(st, ek) == TRUE
\* Lead.event_key, unique=True (line 100): an INSERT passes the unique index
\* only when the table has no row with that event_key
event_key_unique(st, ek) == st[ek] = NoRec

\* the rows with one event_key after an INSERT of `row`: the row itself, or
\* one row more when there was one already
Inserted(cur, row) ==
    IF cur = NoRec THEN row ELSE [cur EXCEPT !.rows = @ + 1]

\* the row after the UPDATE of lines 189-232: `cur` is the row in the table at
\* commit time, `snap` the row this session loaded; only the columns whose
\* value changed in the session are written
UpdatedRow(cur, snap, data, event_record) ==
    [none |-> FALSE,
     rows |-> cur.rows,
     user_data |-> IF Merge(snap.user_data, normalized_ud(data)) # snap.user_data
                   THEN Merge(snap.user_data, normalized_ud(data))
                   ELSE cur.user_data,
     custom_data |-> IF Merge(snap.custom_data, custom_of(data)) # snap.custom_data
                     THEN Merge(snap.custom_data, custom_of(data))
                     ELSE cur.custom_data,
     event_history |-> IF HistoryWritten(snap, event_record)
                       THEN <<event_record>>
                       ELSE cur.event_history,
     sent |-> SentAfterUpdate(cur, snap, event_record),
     last_sent_at |-> IF event_record.status = "success" THEN TRUE ELSE cur.last_sent_at,
     last_attempt_at |-> IF event_record # NoEventRecord /\ event_record.status # "success"
                         THEN TRUE ELSE cur.last_attempt_at]


-----------------------------------------------------------------------------
(* worker.py: state *)
NoResults == EmptyMap

\* the events for which some sink call of a fan-out returned ok
Accepted(results, et) ==
    {SentEvent(k, et) : k \in {x \in DOMAIN results : results[x] = "ok"}}

\* every sink call of a fan-out returned ok
AllOk(results) ==
    results # NoResults /\ \A k \in DOMAIN results : results[k] = "ok"

\* a task asyncio.create_task(_spawn_worker(entry_id, entry_data)) made
NewTask(e) ==
    [entry |-> e, pc |-> "created",
     accepted |-> {}, all_ok |-> FALSE, raised |-> FALSE,
     event_record |-> NoEventRecord,
     db |-> "idle", snap |-> NoRec, saveRet |-> "none", retries |-> SaveRetries]

\* a finished task: nothing of it is read again but t.done()
DoneTask(t) ==
    [entry |-> 0, pc |-> "done",
     accepted |-> {}, all_ok |-> FALSE, raised |-> FALSE,
     event_record |-> NoEventRecord,
     db |-> "idle", snap |-> NoRec, saveRet |-> "none", retries |-> SaveRetries]

\* process_batch is suspended at an await, so the event loop runs other tasks:
\* asyncio.wait(in_flight, timeout=0) (226), asyncio.sleep(2) (232),
\* asyncio.wait(in_flight, timeout=10) (238)
LoopFree == mainPc \in {"wait", "sleep2", "shutdown_wait"}

\* tasks inside `async with _sem`, i.e. inside process_entry
Processing == {i \in DOMAIN in_flight : in_flight[i].pc \in {"sending", "saving"}}

\* _sem = asyncio.Semaphore(WORKER_CONCURRENCY): the permits left
sem == WORKER_CONCURRENCY - Cardinality(Processing)

Min(a, b) == IF a < b THEN a ELSE b
Max(a, b) == IF a > b THEN a ELSE b
MaxOf(S) == CHOOSE x \in S : \A y \in S : y <= x

RECURSIVE SeqOfSet(_)
\* the ids of a set in ascending order
SeqOfSet(S) ==
    IF S = {} THEN <<>>
    ELSE LET m == CHOOSE x \in S : \A y \in S : x <= y
         IN <<m>> \o SeqOfSet(S \ {m})

Take(s, n) == SubSeq(s, 1, Min(n, Len(s)))
Drop(s, n) == SubSeq(s, Min(n, Len(s)) + 1, Len(s))

\* redis.xack(STREAM, GROUP, entry_id)
safe_ack(p, e) == [x \in (DOMAIN p) \ {e} |-> p[x]]

SinkIdle == [pc |-> "idle"]
DeliveryIdle == [pc |-> "idle"]
PixelIdle == [pc |-> "idle"]
NoSessions == <<>>

\* the replies of XGROUP CREATE, an error reply as the words of str(e)
OK == <<"OK">>
BusyGroup == <<"BUSYGROUP", "Consumer", "Group", "name", "already", "exists">>
WrongType == <<"WRONGTYPE", "Operation", "against", "a", "key", "holding", "the", "wrong", "kind", "of", "value">>
ConnectionError == <<"Error", "connecting", "to", "redis">>
NoReply == <<>>

\* the module was imported: lines 41-52 made the group or found it
Bootstrapped == [key |-> "stream", group |-> TRUE, reply |-> OK]

\* a stream nothing was appended to yet, and what was observed of its entries
EmptyStream ==
    /\ stream = <<>>
    /\ lastDelivered = 0
    /\ pel = EmptyMap
    /\ sends = [e \in 1..MaxEntries |-> {}]
    /\ started = [e \in 1..MaxEntries |-> 0]
    /\ outcomes = [e \in 1..MaxEntries |-> {}]

\* a leads table without rows
EmptyStore == store = [k \in Keys |-> NoRec]

\* the process when process_batch is called, configured as one of C
ProcessInit(C) ==
    /\ running = TRUE
    /\ mainPc = "top"
    /\ local_queue = <<>>
    /\ in_flight = <<>>
    /\ reclaimer = "created"
    /\ cfg \in C
    /\ nextAid = 0
    /\ sink = SinkIdle
    /\ delivery = DeliveryIdle
    /\ pixel = PixelIdle
    /\ sessions = NoSessions
    /\ bootstrap = Bootstrapped

\* the state when process_batch is called, in a process configured as c
WorkerInit(C) ==
    /\ EmptyStream
    /\ EmptyStore
    /\ ProcessInit(C)

-----------------------------------------------------------------------------
(* environment *)

\* the entries the producers append (XADD) between two reads of the worker:
\* the stream is only looked at by xreadgroup, so the entries appended since
\* the last read arrive with the read that first sees them
Arrivals(P, room) ==
    {<<>>} \cup (IF room >= 1 THEN {<<p>> : p \in P} ELSE {})
           \cup (IF room >= 2 THEN {<<p, q>> : p \in P, q \in P} ELSE {})

\* the pending entries after dt ticks
Aged(p, dt) == [e \in DOMAIN p |-> Min(p[e] + dt, AUTOCLAIM_MIN_IDLE_MS)]

\* one tick passes while process_batch sleeps (232) or waits for its tasks
\* (238); the time that passes inside xreadgroup is part of
\* process_batch_iteration, and none passes in asyncio.wait(..., timeout=0)
Tick ==
    /\ mainPc \in {"sleep2", "shutdown_wait"}
    /\ \E e \in DOMAIN pel : pel[e] < AUTOCLAIM_MIN_IDLE_MS
    /\ pel' = Aged(pel, 1)
    /\ UNCHANGED <<stream, lastDelivered, running, mainPc, local_queue, in_flight,
                   reclaimer, store, cfg, nextAid, sends, started, outcomes, sink, delivery, pixel, sessions, bootstrap>>

\* shutdown(sig, frame): SIGINT / SIGTERM
shutdown ==
    /\ running
    /\ mainPc \notin {"import", "aborted", "done"}
    /\ running' = FALSE
    /\ UNCHANGED <<stream, lastDelivered, pel, mainPc, local_queue, in_flight,
                   reclaimer, store, cfg, nextAid, sends, started, outcomes, sink, delivery, pixel, sessions, bootstrap>>


-----------------------------------------------------------------------------
(* worker.py: process_batch *)

\* autoclaim_task.cancel()
Cancelled(r) == IF r = "finished" THEN "finished" ELSE "cancelled"

\* lines 219-222: the queue and the task list after the dispatch loop
DispatchCount(q, fl) == Max(0, Min(Len(q), WORKER_CONCURRENCY - Len(fl)))

NewTasks(q, n) == [j \in 1..n |-> NewTask(q[j])]

\* line 227: in_flight = [t for t in pending if not t.done()]
Pruned(fl) == SelectSeq(fl, LAMBDA t : t.pc # "done")

\* asyncio.wait(in_flight, timeout=0) returns after one cycle of the event
\* loop, in which every callback that was ready has run: a task just created
\* has started (unless it waits for _sem), the reclaimer has started
WaitOver ==
    /\ \A i \in DOMAIN in_flight : in_flight[i].pc = "created" => sem <= 0
    /\ reclaimer # "created"

\* process_batch resumes from line 226 (then prunes) or is at the top of
\* `while running` without having been suspended
Resumable == mainPc = "top" \/ (mainPc = "wait" /\ WaitOver)

InFlightNow == IF mainPc = "wait" THEN Pruned(in_flight) ELSE in_flight

\* one pass of `while running` (207-227), from the prune that ends the
\* previous pass to the next await that suspends: xreadgroup is synchronous
\* (dt ticks pass in it), local_queue.put and local_queue.get do not suspend
\* on an unbounded, non-empty queue; asyncio.wait suspends, and is only
\* reached when a task is in flight
process_batch_iteration(P) ==
    /\ Resumable
    /\ running
    /\ \E dt \in 0..READ_BLOCK_MS, arrived \in Arrivals(P, MaxEntries - Len(stream)) :
       LET fl == InFlightNow
           s1 == stream \o arrived
           newIds == (lastDelivered + 1)..Min(Len(s1), lastDelivered + READ_COUNT)
           q1 == local_queue \o SeqOfSet(newIds)
           n == DispatchCount(q1, fl)
       IN /\ nextAid + n <= MaxAttempts
          /\ Len(q1) - n <= MaxQueue
          /\ stream' = s1
          /\ lastDelivered' = Max(lastDelivered, Min(Len(s1), lastDelivered + READ_COUNT))
          /\ pel' = [e \in DOMAIN pel \cup newIds |->
                        IF e \in newIds THEN 0 ELSE Aged(pel, dt)[e]]
          /\ local_queue' = Drop(q1, n)
          /\ in_flight' = fl \o NewTasks(q1, n)
          /\ nextAid' = nextAid + n
          /\ mainPc' = IF in_flight' # <<>> THEN "wait" ELSE "top"
    /\ UNCHANGED <<running, reclaimer, store, cfg, sends, started, outcomes, sink, delivery, pixel, sessions, bootstrap>>

\* xreadgroup raises and nothing catches it: process_batch ends
process_batch_read_error_fatal ==
    /\ Resumable
    /\ running
    /\ in_flight' = InFlightNow
    /\ mainPc' = "done"
    /\ UNCHANGED <<stream, lastDelivered, pel, running, local_queue,
                   reclaimer, store, cfg, nextAid, sends, started, outcomes, sink, delivery, pixel, sessions, bootstrap>>
\* xreadgroup raises: except Exception (229) and asyncio.sleep(2)
process_batch_read_error ==
    /\ Resumable
    /\ running
    /\ in_flight' = InFlightNow
    /\ mainPc' = "sleep2"
    /\ UNCHANGED <<stream, lastDelivered, pel, running, local_queue,
                   reclaimer, store, cfg, nextAid, sends, started, outcomes, sink, delivery, pixel, sessions, bootstrap>>

process_batch_after_sleep ==
    /\ mainPc = "sleep2"
    /\ mainPc' = "top"
    /\ UNCHANGED <<stream, lastDelivered, pel, running, local_queue, in_flight,
                   reclaimer, store, cfg, nextAid, sends, started, outcomes, sink, delivery, pixel, sessions, bootstrap>>

process_batch_finally_cancel_first ==
    /\ Resumable
    /\ ~running
    /\ in_flight' = InFlightNow
    /\ mainPc' = IF in_flight' = <<>> THEN "done" ELSE "shutdown_wait"
    /\ reclaimer' = Cancelled(reclaimer)
    /\ UNCHANGED <<stream, lastDelivered, pel, running, local_queue,
                   store, cfg, nextAid, sends, started, outcomes, sink, delivery, pixel, sessions, bootstrap>>
\* `while running` is left; finally: asyncio.wait(in_flight, timeout=10),
\* which raises ValueError (swallowed) on an empty list
process_batch_finally ==
    /\ Resumable
    /\ ~running
    /\ in_flight' = InFlightNow
    /\ IF in_flight' = <<>>
       THEN /\ mainPc' = "done"
            /\ reclaimer' = Cancelled(reclaimer)
       ELSE /\ mainPc' = "shutdown_wait"
            /\ UNCHANGED reclaimer
    /\ UNCHANGED <<stream, lastDelivered, pel, running, local_queue,
                   store, cfg, nextAid, sends, started, outcomes, sink, delivery, pixel, sessions, bootstrap>>

\* the wait of the finally block without its timeout=10: it ends only when
\* every task in flight is done
process_batch_exit_no_timeout ==
    /\ mainPc = "shutdown_wait"
    /\ \A i \in DOMAIN in_flight : in_flight[i].pc = "done"
    /\ mainPc' = "done"
    /\ reclaimer' = Cancelled(reclaimer)
    /\ UNCHANGED <<stream, lastDelivered, pel, running, local_queue, in_flight,
                   store, cfg, nextAid, sends, started, outcomes, sink, delivery, pixel, sessions, bootstrap>>
process_batch_exit_acks ==
    /\ mainPc = "shutdown_wait"
    /\ mainPc' = "done"
    /\ reclaimer' = Cancelled(reclaimer)
    /\ pel' = [e \in (DOMAIN pel) \ {in_flight[i].entry : i \in DOMAIN in_flight} |-> pel[e]]
    /\ UNCHANGED <<stream, lastDelivered, running, local_queue, in_flight,
                   store, cfg, nextAid, sends, started, outcomes, sink, delivery, pixel, sessions, bootstrap>>
\* the wait of the finally block ends (all tasks done, or the 10 s elapsed);
\* the reclaimer is cancelled and process_batch returns
process_batch_exit ==
    /\ mainPc = "shutdown_wait"
    /\ mainPc' = "done"
    /\ reclaimer' = Cancelled(reclaimer)
    /\ UNCHANGED <<stream, lastDelivered, pel, running, local_queue, in_flight,
                   store, cfg, nextAid, sends, started, outcomes, sink, delivery, pixel, sessions, bootstrap>>

-----------------------------------------------------------------------------
(* worker.py: the reclaimer *)

\* XAUTOCLAIM ... min_idle_time start_id=0-0 count: the pending ids idle for
\* at least min_idle_time, lowest ids first, at most count of them
xautoclaim(p, min_idle_time, count) ==
    Take(SeqOfSet({e \in DOMAIN p : p[e] >= min_idle_time}), count)

autoclaim_once_any_idle == xautoclaim(pel, 0, AUTOCLAIM_BATCH)
\* _autoclaim_once (150-169): min_idle_time=AUTOCLAIM_MIN_IDLE_MS,
\* count=AUTOCLAIM_BATCH
autoclaim_once == xautoclaim(pel, AUTOCLAIM_MIN_IDLE_MS, AUTOCLAIM_BATCH)

Range(s) == {s[i] : i \in DOMAIN s}

\* the coroutine starts: `while running`, then asyncio.sleep
periodic_autoclaim_start ==
    /\ LoopFree
    /\ reclaimer = "created"
    /\ reclaimer' = IF running THEN "sleeping" ELSE "finished"
    /\ UNCHANGED <<stream, lastDelivered, pel, running, mainPc, local_queue,
                   in_flight, store, cfg, nextAid, sends, started, outcomes, sink, delivery, pixel, sessions, bootstrap>>

\* the sleep is over: one round of lines 177-180, then `while running`
periodic_autoclaim ==
    /\ LoopFree
    /\ reclaimer = "sleeping"
    /\ LET claimed == autoclaim_once
       IN /\ Len(local_queue) + Len(claimed) <= MaxQueue
          /\ pel' = [e \in DOMAIN pel |-> IF e \in Range(claimed) THEN 0 ELSE pel[e]]
          /\ local_queue' = local_queue \o claimed
    /\ reclaimer' = IF running THEN "sleeping" ELSE "finished"
    /\ UNCHANGED <<stream, lastDelivered, running, mainPc, in_flight, store,
                   cfg, nextAid, sends, started, outcomes, sink, delivery, pixel, sessions, bootstrap>>


-----------------------------------------------------------------------------
(* worker.py: _spawn_worker and process_entry *)

\* the task enters save_lead: run_in_executor(None, db_sync)
Saving(t, status) ==
    [t EXCEPT !.pc = "saving",
              !.event_record = [status |-> status],
              !.db = "query"]

\* the task starts: `async with _sem`, then process_entry up to its first
\* await (lines 88-114)
spawn_worker_start(i) ==
    /\ LoopFree
    /\ in_flight[i].pc = "created"
    /\ sem > 0
    /\ LET t == in_flight[i]
           ld == parse_payload(stream[t.entry])
           event == EventOf(t.entry)
       IN IF Falsy(ld)
          THEN \* line 91: return (entry_id, True); line 202: _safe_ack
               /\ in_flight' = [in_flight EXCEPT ![i] = DoneTask(t)]
               /\ pel' = safe_ack(pel, t.entry)
               /\ outcomes' = [outcomes EXCEPT ![t.entry] = @ \cup {"malformed"}]
          ELSE IF ~IsDict(ld)
          THEN \* line 94: ld.get raises AttributeError, outside any try: the
               \* exception ends process_entry and the task; no ack
               /\ in_flight' = [in_flight EXCEPT ![i] = DoneTask(t)]
               /\ outcomes' = [outcomes EXCEPT ![t.entry] = @ \cup {"crashed"}]
               /\ UNCHANGED pel
          ELSE IF ~should_send_event(event)
          THEN \* line 103: save_lead(ld, {"event": ..., "status": "skipped"})
               /\ in_flight' = [in_flight EXCEPT ![i] = Saving(t, "skipped")]
               /\ UNCHANGED <<pel, outcomes>>
          ELSE \* line 114: send_event_with_retry(event, ld)
               /\ in_flight' = [in_flight EXCEPT ![i].pc = "sending"]
               /\ UNCHANGED <<pel, outcomes>>
    /\ started' = [started EXCEPT ![in_flight[i].entry] = Min(@ + 1, 2)]
    /\ UNCHANGED <<stream, lastDelivered, running, mainPc, local_queue,
                   reclaimer, store, cfg, nextAid, sends, sink, delivery, pixel, sessions, bootstrap>>

\* send_event_with_retry (238-270) on the results of its successive
\* send_event_to_all calls: success at the first fan-out with an ok result,
\* failed when `retries` fan-outs had none
RECURSIVE send_event_with_retry(_, _, _)
send_event_with_retry(fanouts, attempt, retries) ==
    IF attempt >= retries \/ attempt >= Len(fanouts)
    THEN [status |-> "failed", results |-> NoResults, fanouts |-> attempt]
    ELSE IF AnyOk(fanouts[attempt + 1])
    THEN [status |-> "success", results |-> fanouts[attempt + 1], fanouts |-> attempt + 1]
    ELSE send_event_with_retry(fanouts, attempt + 1, retries)

\* the sequences of fan-out results one call can see, up to what the call
\* keeps of them: a fan-out with an ok result ends the call whatever the
\* number of failed fan-outs before it, and the results of a failed fan-out
\* are not read again.  So a success is represented by its last fan-out and
\* a failure by `retries` fan-outs with the same results
FanoutRuns(c, et) ==
    LET all == send_event_to_all(c, et, FALSE)
    IN {<<r>> : r \in {x \in all : AnyOk(x)}}
       \cup {[j \in 1..FanoutRetries |-> r] : r \in {x \in all : ~AnyOk(x)}}

RECURSIVE PostsOfRun(_, _, _)
PostsOfRun(fanouts, n, et) ==
    IF n = 0 THEN {} ELSE PostsOf(fanouts[n], et) \cup PostsOfRun(fanouts, n - 1, et)

\* await send_event_with_retry(event, ld) (114) returns: lines 115-127 up to
\* the await of save_lead.  The call reads nothing another task writes, so
\* its fan-outs are taken in one step, at its end
deliver(i) ==
    /\ LoopFree
    /\ in_flight[i].pc = "sending"
    /\ LET t == in_flight[i]
           et == EventOf(t.entry)
       IN \E run \in FanoutRuns(cfg, et) :
            LET res == send_event_with_retry(run, 0, FanoutRetries)
            IN /\ res.fanouts = Len(run)
               /\ sends' = [sends EXCEPT ![t.entry] = @ \cup PostsOfRun(run, res.fanouts, et)]
               /\ in_flight' = [in_flight EXCEPT ![i] =
                     Saving([t EXCEPT !.accepted = Accepted(res.results, et),
                                      !.all_ok = AllOk(res.results)],
                            IF res.status = "success" THEN "success" ELSE "failed")]
    /\ UNCHANGED <<stream, lastDelivered, pel, running, mainPc, local_queue,
                   reclaimer, store, cfg, nextAid, started, outcomes, sink, delivery, pixel, sessions, bootstrap>>

delivery_raises_propagates(i) ==
    /\ LoopFree
    /\ in_flight[i].pc = "sending"
    /\ in_flight' = [in_flight EXCEPT ![i] = DoneTask(in_flight[i])]
    /\ UNCHANGED <<stream, lastDelivered, pel, running, mainPc, local_queue,
                   reclaimer, store, cfg, nextAid, sends, started, outcomes, sink, delivery, pixel, sessions, bootstrap>>
\* the delivery client raises: except Exception (137) saves status failed
delivery_raises(i) ==
    /\ LoopFree
    /\ in_flight[i].pc = "sending"
    /\ in_flight' = [in_flight EXCEPT ![i] =
                       Saving([in_flight[i] EXCEPT !.raised = TRUE], "failed")]
    /\ UNCHANGED <<stream, lastDelivered, pel, running, mainPc, local_queue,
                   reclaimer, store, cfg, nextAid, sends, started, outcomes, sink, delivery, pixel, sessions, bootstrap>>

-----------------------------------------------------------------------------
(* db.py: save_lead's db_sync, running in an executor thread *)

KeyOf(t) == stream[t.entry].event_key

\* lines 170-179: a session; `if not ek: return False`; the SELECT
db_query(i) ==
    /\ in_flight[i].pc = "saving"
    /\ in_flight[i].db = "query"
    /\ LET t == in_flight[i]
       IN in_flight' =
            [in_flight EXCEPT ![i] =
               IF KeyOf(t) = NoKey
               THEN [t EXCEPT !.db = "ret", !.saveRet = "no_key"]
               ELSE [t EXCEPT !.db = "commit", !.snap = store[KeyOf(t)]]]
    /\ UNCHANGED <<stream, lastDelivered, pel, running, mainPc, local_queue,
                   reclaimer, store, cfg, nextAid, sends, started, outcomes, sink, delivery, pixel, sessions, bootstrap>>

\* OperationalError (235-239) in every pass of `while retries > 0`: rollback,
\* retries -= 1, sleep; `return False` when none is left.  A pass that raises
\* followed by one that does not is the SELECT taken later
db_operational_error(i) ==
    /\ in_flight[i].pc = "saving"
    /\ in_flight[i].db = "query"
    /\ KeyOf(in_flight[i]) # NoKey
    /\ SaveRetries > 0
    /\ in_flight' = [in_flight EXCEPT ![i].db = "ret", ![i].saveRet = "unavailable"]
    /\ UNCHANGED <<stream, lastDelivered, pel, running, mainPc, local_queue,
                   reclaimer, store, cfg, nextAid, sends, started, outcomes, sink, delivery, pixel, sessions, bootstrap>>

db_operational_error_pass_once(i) ==
    /\ in_flight[i].pc = "saving"
    /\ in_flight[i].db \in {"query", "commit"}
    /\ KeyOf(in_flight[i]) # NoKey
    /\ in_flight[i].retries > 0
    /\ LET t == in_flight[i]
           left == t.retries - 1
       IN in_flight' = [in_flight EXCEPT ![i] =
                          [t EXCEPT !.db = "ret", !.saveRet = "unavailable",
                                    !.snap = NoRec, !.retries = left]]
    /\ UNCHANGED <<stream, lastDelivered, pel, running, mainPc, local_queue,
                   reclaimer, store, cfg, nextAid, sends, started, outcomes, sink, delivery, pixel, sessions, bootstrap>>

\* one pass of `while retries > 0` (169) that ends in OperationalError, raised
\* by the SELECT (179) or by session.commit() (232): rollback, retries -= 1,
\* time.sleep(1) in the executor thread, then the next pass with a new
\* session, or `return False` (246) when no retry is left
db_operational_error_pass(i) ==
    /\ in_flight[i].pc = "saving"
    /\ in_flight[i].db \in {"query", "commit"}
    /\ KeyOf(in_flight[i]) # NoKey
    /\ in_flight[i].retries > 0
    /\ LET t == in_flight[i]
           left == t.retries - 1
       IN in_flight' = [in_flight EXCEPT ![i] =
                          IF left > 0
                          THEN [t EXCEPT !.db = "query", !.snap = NoRec, !.retries = left]
                          ELSE [t EXCEPT !.db = "ret", !.saveRet = "unavailable",
                                         !.snap = NoRec, !.retries = left]]
    /\ UNCHANGED <<stream, lastDelivered, pel, running, mainPc, local_queue,
                   reclaimer, store, cfg, nextAid, sends, started, outcomes, sink, delivery, pixel, sessions, bootstrap>>

\* session.commit() (232): the INSERT fails on the unique event_key when a row
\* was inserted since the SELECT (IntegrityError: except Exception, 240-243)
db_commit(i) ==
    /\ in_flight[i].pc = "saving"
    /\ in_flight[i].db = "commit"
    /\ LET t == in_flight[i]
           ek == KeyOf(t)
           data == stream[t.entry]
       IN IF t.snap = NoRec
          THEN IF event_key_unique(store, ek)
               THEN /\ store' = [store EXCEPT ![ek] =
                                   Inserted(store[ek], InsertedRow(data, t.event_record))]
                    /\ in_flight' = [in_flight EXCEPT ![i] =
                          [t EXCEPT !.db = "ret", !.saveRet = "true", !.snap = NoRec]]
               ELSE /\ UNCHANGED store
                    /\ in_flight' = [in_flight EXCEPT ![i] =
                          [t EXCEPT !.db = "ret", !.saveRet = "integrity", !.snap = NoRec]]
          ELSE /\ store' = [store EXCEPT ![ek] =
                              UpdatedRow(store[ek], t.snap, data, t.event_record)]
               /\ in_flight' = [in_flight EXCEPT ![i] =
                     [t EXCEPT !.db = "ret", !.saveRet = "true", !.snap = NoRec]]
    /\ UNCHANGED <<stream, lastDelivered, pel, running, mainPc, local_queue,
                   reclaimer, cfg, nextAid, sends, started, outcomes, sink, delivery, pixel, sessions, bootstrap>>

\* process_entry's result once save_lead has returned: (entry_id, True) on the
\* skip path (106), (entry_id, status == "success") on the send path (135),
\* (entry_id, False) in the except branch (145)
EntryOk_always(t) == TRUE
EntryOk(t) ==
    /\ ~t.raised
    /\ t.event_record.status \in {"skipped", "success"}

OutcomeOf(t) ==
    IF t.raised THEN "raised" ELSE t.event_record.status

\* save_lead has returned; process_entry returns; lines 201-202: ack if ok
spawn_worker_finish(i) ==
    /\ LoopFree
    /\ in_flight[i].pc = "saving"
    /\ in_flight[i].db = "ret"
    /\ LET t == in_flight[i]
           ok == EntryOk(t)
       IN /\ pel' = IF ok THEN safe_ack(pel, t.entry) ELSE pel
          /\ outcomes' = [outcomes EXCEPT ![t.entry] = @ \cup {OutcomeOf(t)}]
          /\ in_flight' = [in_flight EXCEPT ![i] = DoneTask(t)]
    /\ UNCHANGED <<stream, lastDelivered, running, mainPc, local_queue,
                   reclaimer, store, cfg, nextAid, sends, started, sink, delivery, pixel, sessions, bootstrap>>

-----------------------------------------------------------------------------
\* a step of the i-th task of in_flight or of the executor thread of its
\* save_lead call
TaskStep(i) ==
    /\ i \in DOMAIN in_flight
    /\ \/ spawn_worker_start(i)
       \/ deliver(i)
       \/ delivery_raises(i)
       \/ db_query(i)
       \/ db_operational_error(i)
       \/ db_commit(i)
       \/ spawn_worker_finish(i)

TaskNext == \E i \in DOMAIN in_flight : TaskStep(i)

\* the worker while it keeps running: no signal, no error of the stream read
SteadyNext(P) ==
    \/ process_batch_iteration(P)
    \/ periodic_autoclaim_start
    \/ periodic_autoclaim
    \/ TaskNext

\* the worker with signals and read errors
LifecycleNext(P) ==
    \/ SteadyNext(P)
    \/ Tick
    \/ shutdown
    \/ process_batch_read_error
    \/ process_batch_after_sleep
    \/ process_batch_finally
    \/ process_batch_exit

\* both sinks configured, one task at a time
SerialConfigs == {c \in Configs : c.fb /\ c.google /\ c.concurrency = 1}

Init == WorkerInit(SerialConfigs)

Next == SteadyNext(Payloads)

Spec == Init /\ [][Next]_vars

\* two tasks at a time, entries that share an event_key
ConcurrentConfigs == {c \in Configs : c.fb /\ c.google /\ c.auto /\ c.concurrency = 2}
KeyedPayloads == {p \in Payloads : p.kind = "obj" /\ p.route_key # "vip" /\ p.event_key # NoKey}

InitConcurrent == WorkerInit(ConcurrentConfigs)

NextConcurrent == SteadyNext(KeyedPayloads)

SpecConcurrent == InitConcurrent /\ [][NextConcurrent]_vars

\* one entry kind, one task at a time, and the scheduling of the event loop:
\* process_batch runs on whenever it can (the producers need not append),
\* every callback that is ready is run, the reclaimer's sleep ends whenever
\* the event loop gets to run again and again
ReclaimConfigs == {c \in Configs : c.fb /\ c.google /\ c.auto /\ c.concurrency = 1}
LeadPayloads == {p \in Payloads : p.kind = "obj" /\ p.route_key = "botb" /\ p.event_key # NoKey}

InitReclaim == WorkerInit(ReclaimConfigs)

NextReclaim == SteadyNext(LeadPayloads)

SpecReclaim ==
    /\ InitReclaim
    /\ [][NextReclaim]_vars
    /\ WF_vars(process_batch_iteration({}))
    /\ WF_vars(periodic_autoclaim_start)
    /\ SF_vars(periodic_autoclaim)
    /\ \A i \in 1..MaxOf(Concurrencies) : WF_vars(TaskStep(i))

\* a worker started on a stream whose entries were all delivered to the group
\* before (by an earlier run of this consumer or by another consumer) and
\* are still pending, each idle for any time
Backlog == 3

InitBacklog ==
    /\ stream \in [1..Backlog -> LeadPayloads]
    /\ lastDelivered = Backlog
    /\ pel \in [1..Backlog -> 0..AUTOCLAIM_MIN_IDLE_MS]
    /\ sends = [e \in 1..Backlog |-> {}]
    /\ started = [e \in 1..Backlog |-> 0]
    /\ outcomes = [e \in 1..Backlog |-> {}]
    /\ EmptyStore
    /\ ProcessInit(ReclaimConfigs)

\* nothing is appended to the stream any more
NextBacklog == LifecycleNext({})

SpecBacklog == InitBacklog /\ [][NextBacklog]_vars

\* `tok in str(e)` on the words of a message
Mentions(msg, tok) == \E j \in DOMAIN msg : msg[j] = tok

\* what redis.xgroup_create(name=STREAM, groupname=GROUP, id="$",
\* mkstream=True) can answer: the connection may fail; the key may hold
\* another type; the group may exist; otherwise the group is created (and
\* the stream with it)
xgroup_create_replies(b) ==
    {ConnectionError}
    \cup (IF b.key = "other" THEN {WrongType}
          ELSE IF b.group THEN {BusyGroup}
          ELSE {OK})

xgroup_create_swallow ==
    /\ mainPc = "import"
    /\ \E reply \in xgroup_create_replies(bootstrap) :
          /\ bootstrap' = [key |-> IF reply = OK THEN "stream" ELSE bootstrap.key,
                           group |-> (bootstrap.group \/ reply = OK),
                           reply |-> reply]
          /\ mainPc' = "top"
    /\ UNCHANGED <<stream, lastDelivered, pel, running, local_queue, in_flight,
                   reclaimer, store, cfg, nextAid, sends, started, outcomes, sink, delivery, pixel, sessions>>
\* lines 41-52, run when the module is imported: a reply that is an error
\* is ignored when str(e) has BUSYGROUP in it and raised again otherwise,
\* which ends the import and the process
xgroup_create ==
    /\ mainPc = "import"
    /\ \E reply \in xgroup_create_replies(bootstrap) :
          /\ bootstrap' = [key |-> IF reply = OK THEN "stream" ELSE bootstrap.key,
                           group |-> (bootstrap.group \/ reply = OK),
                           reply |-> reply]
          /\ mainPc' = IF reply = OK \/ Mentions(reply, "BUSYGROUP")
                       THEN "top" ELSE "aborted"
    /\ UNCHANGED <<stream, lastDelivered, pel, running, local_queue, in_flight,
                   reclaimer, store, cfg, nextAid, sends, started, outcomes, sink, delivery, pixel, sessions>>

\* the process from its import on: the key of the stream is absent, holds a
\* stream without the group or with it, or holds another type
BootstrapStates ==
    {[key |-> "none", group |-> FALSE, reply |-> NoReply],
     [key |-> "stream", group |-> FALSE, reply |-> NoReply],
     [key |-> "stream", group |-> TRUE, reply |-> NoReply],
     [key |-> "other", group |-> FALSE, reply |-> NoReply]}

InitBootstrap ==
    /\ EmptyStream
    /\ EmptyStore
    /\ running = TRUE
    /\ mainPc = "import"
    /\ local_queue = <<>>
    /\ in_flight = <<>>
    /\ reclaimer = "created"
    /\ cfg \in ReclaimConfigs
    /\ nextAid = 0
    /\ sink = SinkIdle
    /\ delivery = DeliveryIdle
    /\ pixel = PixelIdle
    /\ sessions = NoSessions
    /\ bootstrap \in BootstrapStates

NextBootstrap ==
    \/ xgroup_create
    \/ SteadyNext(LeadPayloads)

SpecBootstrap == InitBootstrap /\ [][NextBootstrap]_vars

\* entries whose payload field holds any kind of JSON value, or is missing
ShapeKinds == {"obj", "empty_obj", "array", "empty_array", "string", "empty_string",
               "number", "zero", "null", "missing", "bad"}

ShapePayloads ==
    [kind : ShapeKinds, route_key : {"botb"}, event_key : Keys,
     user_data : {EmptyMap}, custom_data : {EmptyMap}]

InitShapes == WorkerInit(ReclaimConfigs)

NextShapes == SteadyNext(ShapePayloads)

SpecShapes == InitShapes /\ [][NextShapes]_vars

\* the worker while the database comes and goes: each transaction of a
\* save_lead call may fail on its own
OutageTaskStep(i) ==
    /\ i \in DOMAIN in_flight
    /\ \/ spawn_worker_start(i)
       \/ deliver(i)
       \/ delivery_raises(i)
       \/ db_query(i)
       \/ db_operational_error_pass(i)
       \/ db_commit(i)
       \/ spawn_worker_finish(i)

InitOutage == WorkerInit(ReclaimConfigs)

NextOutage ==
    \/ process_batch_iteration(LeadPayloads)
    \/ periodic_autoclaim_start
    \/ periodic_autoclaim
    \/ \E i \in DOMAIN in_flight : OutageTaskStep(i)

SpecOutage == InitOutage /\ [][NextOutage]_vars

\* the worker from start to exit: signals and read errors, one entry kind
InitLifecycle == WorkerInit(ReclaimConfigs)

NextLifecycle == LifecycleNext(LeadPayloads)

SpecLifecycle == InitLifecycle /\ [][NextLifecycle]_vars

\* the worker from start to exit with the scheduling of the event loop:
\* process_batch runs on when it can (the blocking read, the sleep and both
\* waits have a timeout), and a callback that is ready is run: a task that
\* was created starts, the reclaimer starts.  Nothing makes a task that has
\* started get any further
SpecShutdown ==
    /\ InitLifecycle
    /\ [][NextLifecycle]_vars
    /\ WF_vars(process_batch_after_sleep)
    /\ WF_vars(process_batch_finally)
    /\ WF_vars(process_batch_exit)
    /\ WF_vars(periodic_autoclaim_start)
    /\ \A i \in 1..MaxOf(Concurrencies) :
          WF_vars(i \in DOMAIN in_flight /\ spawn_worker_start(i))

-----------------------------------------------------------------------------
(* fb_google.py: one call of send_event_with_retry, fan-out by fan-out *)

EventTypes == {"Lead", "Subscribe"}

\* line 247: attempt = 0
send_event_with_retry_call ==
    /\ delivery.pc = "idle"
    /\ \E et \in EventTypes :
         delivery' = [pc |-> "loop", et |-> et, attempt |-> 0, log |-> <<>>,
                      status |-> "none"]
    /\ UNCHANGED <<workerVars, sink, pixel, sessions>>

\* lines 250-253, 262-263: one send_event_to_all; return success when a
\* result is ok, else attempt += 1 and sleep
send_event_with_retry_fanout ==
    /\ delivery.pc = "loop"
    /\ delivery.attempt < FanoutRetries
    /\ \E results \in send_event_to_all(cfg, delivery.et, FALSE) :
         delivery' =
            IF AnyOk(results)
            THEN [delivery EXCEPT !.pc = "returned", !.status = "success",
                                  !.log = Append(@, results)]
            ELSE [delivery EXCEPT !.attempt = @ + 1, !.log = Append(@, results)]
    /\ UNCHANGED <<workerVars, sink, pixel, sessions>>

\* lines 254-263: send_event_to_all raises, no results; attempt += 1
send_event_with_retry_raises ==
    /\ delivery.pc = "loop"
    /\ delivery.attempt < FanoutRetries
    /\ delivery' = [delivery EXCEPT !.attempt = @ + 1, !.log = Append(@, NoResults)]
    /\ UNCHANGED <<workerVars, sink, pixel, sessions>>

send_event_with_retry_failed_early ==
    /\ delivery.pc = "loop"
    /\ delivery.attempt >= 1
    /\ delivery' = [delivery EXCEPT !.pc = "returned", !.status = "failed"]
    /\ UNCHANGED <<workerVars, sink, pixel, sessions>>
\* lines 265-270: the loop is left, {"status": "failed"}
send_event_with_retry_failed ==
    /\ delivery.pc = "loop"
    /\ delivery.attempt >= FanoutRetries
    /\ delivery' = [delivery EXCEPT !.pc = "returned", !.status = "failed"]
    /\ UNCHANGED <<workerVars, sink, pixel, sessions>>

DeliveryConfigs == {c \in Configs : c.concurrency = 1}

InitDelivery == WorkerInit(DeliveryConfigs)

NextDelivery ==
    \/ send_event_with_retry_call
    \/ send_event_with_retry_fanout
    \/ send_event_with_retry_raises
    \/ send_event_with_retry_failed

SpecDelivery == InitDelivery /\ [][NextDelivery]_vars

-----------------------------------------------------------------------------
(* fb_google.py: one call of _post_with_retry, POST by POST *)

NetworkError == 0    \* session.post / resp.text raises: there is no status
Statuses == {199, 200, 201, 202, 204, 299, 300, 500}
Responses == Statuses \cup {NetworkError}
RetryCounts == 0..3  \* FB_RETRY_MAX / GA_RETRY_MAX

\* line 118: resp.status in (200, 201, 204)
Accepts(status) == status \in {200, 201, 204}

\* lines 110-114: last_err = None; for attempt in range(retries)
post_with_retry_call ==
    /\ sink.pc = "idle"
    /\ \E n \in RetryCounts :
         sink' = [pc |-> "loop", retries |-> n, attempt |-> 0, posts |-> <<>>,
                  ok |-> FALSE, last_err |-> "None", error |-> "None"]
    /\ UNCHANGED <<workerVars, delivery, pixel, sessions>>

\* lines 115-125: one session.post; return ok on an accepted status, else
\* last_err is the status or the exception, sleep, next attempt
post_with_retry_attempt ==
    /\ sink.pc = "loop"
    /\ sink.attempt < sink.retries
    /\ \E resp \in Responses :
         sink' =
            IF resp # NetworkError /\ Accepts(resp)
            THEN [sink EXCEPT !.pc = "returned", !.ok = TRUE, !.posts = Append(@, resp)]
            ELSE [sink EXCEPT !.attempt = @ + 1, !.posts = Append(@, resp),
                              !.last_err = ToString(resp)]
    /\ UNCHANGED <<workerVars, delivery, pixel, sessions>>

\* line 146: {"ok": False, "error": last_err}
post_with_retry_exhausted ==
    /\ sink.pc = "loop"
    /\ sink.attempt >= sink.retries
    /\ sink' = [sink EXCEPT !.pc = "returned", !.ok = FALSE, !.error = sink.last_err]
    /\ UNCHANGED <<workerVars, delivery, pixel, sessions>>

InitSink == WorkerInit(DeliveryConfigs)

NextSink ==
    \/ post_with_retry_call
    \/ post_with_retry_attempt
    \/ post_with_retry_exhausted

SpecSink == InitSink /\ [][NextSink]_vars

-----------------------------------------------------------------------------
(* fb_google.py: one call of send_event_fb or send_event_google *)

\* the result {"skip": True, "reason": ...}: no POST, no ok, no error
SkipResult(platform) ==
    [pc |-> "returned", platform |-> platform, skip |-> TRUE,
     retries |-> 0, attempt |-> 0, posts |-> <<>>,
     ok |-> FALSE, last_err |-> "None", error |-> "None"]

\* _post_with_retry(url, payload, retries=n, platform=...) is entered
PostCall(platform, n) ==
    [pc |-> "loop", platform |-> platform, skip |-> FALSE,
     retries |-> n, attempt |-> 0, posts |-> <<>>,
     ok |-> FALSE, last_err |-> "None", error |-> "None"]

send_event_fb_unchecked ==
    /\ sink.pc = "idle"
    /\ \E n \in RetryCounts : sink' = PostCall("facebook", n)
    /\ UNCHANGED <<workerVars, delivery, pixel, sessions>>
\* send_event_fb (151-171): skip when FB_PIXEL_ID or FB_ACCESS_TOKEN is
\* missing, else _post_with_retry(..., retries=FB_RETRY_MAX)
send_event_fb ==
    /\ sink.pc = "idle"
    /\ IF ~cfg.fb
       THEN sink' = SkipResult("facebook")
       ELSE \E n \in RetryCounts : sink' = PostCall("facebook", n)
    /\ UNCHANGED <<workerVars, delivery, pixel, sessions>>

\* send_event_google (176-196): skip when GOOGLE_ENABLED is false, else
\* _post_with_retry(..., retries=GA_RETRY_MAX)
send_event_google ==
    /\ sink.pc = "idle"
    /\ IF ~cfg.google
       THEN sink' = SkipResult("ga4")
       ELSE \E n \in RetryCounts : sink' = PostCall("ga4", n)
    /\ UNCHANGED <<workerVars, delivery, pixel, sessions>>

InitSinkCall == WorkerInit(DeliveryConfigs)

NextSinkCall ==
    \/ send_event_fb
    \/ send_event_google
    \/ post_with_retry_attempt
    \/ post_with_retry_exhausted

SpecSinkCall == InitSinkCall /\ [][NextSinkCall]_vars

-----------------------------------------------------------------------------
(* fb_google.py: one call of send_event_to_all, sink call by sink call *)

\* the lead dicts of the model: the value under "__suppress_auto_subscribe"
\* (or "absent") and whether "subscribe_from_lead" is set
FanoutLeads == [suppress : {"absent", "False", "True"}, subscribe_from_lead : BOOLEAN]
FanoutEventTypes == {"Lead", "lead", "Subscribe"}

\* lead.get("__suppress_auto_subscribe", False) as a condition
Suppressed(lead) == lead.suppress = "True"

\* line 218
auto_subscribe(c, et, lead) ==
    lower(et) = "lead" /\ c.auto /\ ~Suppressed(lead)

Clone_untagged(lead) == [lead EXCEPT !.subscribe_from_lead = TRUE]
\* lines 220-222: clone = dict(lead) with the two keys set
Clone(lead) == [lead EXCEPT !.subscribe_from_lead = TRUE, !.suppress = "True"]

\* the sink calls of lines 213-225 in their order: the key of the result,
\* the event and the lead passed
FanoutPlan(c, et, lead) ==
    <<[key |-> "facebook", event |-> et, lead |-> lead]>>
    \o (IF c.google THEN <<[key |-> "google", event |-> et, lead |-> lead]>> ELSE <<>>)
    \o (IF auto_subscribe(c, et, lead)
        THEN <<[key |-> "facebook_subscribe", event |-> "Subscribe", lead |-> Clone(lead)]>>
             \o (IF c.google
                 THEN <<[key |-> "google_subscribe", event |-> "Subscribe", lead |-> Clone(lead)]>>
                 ELSE <<>>)
        ELSE <<>>)

FanoutCall(et, lead, chain) ==
    [pc |-> "running", et |-> et, arg |-> lead, lead |-> lead, chain |-> chain,
     calls |-> <<>>, results |-> EmptyMap]

\* send_event_to_all(lead, et) is called
send_event_to_all_call ==
    /\ delivery.pc = "idle"
    /\ \E et \in FanoutEventTypes, lead \in FanoutLeads :
         delivery' = FanoutCall(et, lead, 0)
    /\ UNCHANGED <<workerVars, sink, pixel, sessions>>

\* the lead a derived Subscribe was sent with is passed to send_event_to_all
\* again
send_event_to_all_again ==
    /\ delivery.pc = "returned"
    /\ \E j \in DOMAIN delivery.calls, et \in FanoutEventTypes :
         /\ delivery.calls[j].key \in {"facebook_subscribe", "google_subscribe"}
         /\ delivery' = FanoutCall(et, delivery.calls[j].lead, delivery.chain + 1)
    /\ UNCHANGED <<workerVars, sink, pixel, sessions>>

\* the next sink call of the fan-out returns its result dict
send_event_to_all_sink ==
    /\ delivery.pc = "running"
    /\ LET plan == FanoutPlan(cfg, delivery.et, delivery.lead)
           n == Len(delivery.calls) + 1
       IN /\ n <= Len(plan)
          /\ \E r \in SinkResults(cfg, plan[n].key) :
               delivery' = [delivery EXCEPT
                              !.calls = Append(@, plan[n]),
                              !.results = Merge(@, [k \in {plan[n].key} |-> r])]
    /\ UNCHANGED <<workerVars, sink, pixel, sessions>>

\* the next sink call raises (in _coerce_lead, in the payload builder): no
\* try in send_event_to_all, so the fan-out ends with the exception and its
\* results dict is gone
send_event_to_all_sink_raises ==
    /\ delivery.pc = "running"
    /\ LET plan == FanoutPlan(cfg, delivery.et, delivery.lead)
           n == Len(delivery.calls) + 1
       IN /\ n <= Len(plan)
          /\ SinkResults(cfg, plan[n].key) # {"skip"}
          /\ delivery' = [delivery EXCEPT
                            !.pc = "raised",
                            !.calls = Append(@, plan[n])]
    /\ UNCHANGED <<workerVars, sink, pixel, sessions>>

\* line 233: return results
send_event_to_all_return ==
    /\ delivery.pc = "running"
    /\ Len(delivery.calls) = Len(FanoutPlan(cfg, delivery.et, delivery.lead))
    /\ delivery' = [delivery EXCEPT !.pc = "returned"]
    /\ UNCHANGED <<workerVars, sink, pixel, sessions>>

InitFanout == WorkerInit(DeliveryConfigs)

NextFanout ==
    \/ send_event_to_all_call
    \/ send_event_to_all_again
    \/ send_event_to_all_sink
    \/ send_event_to_all_sink_raises
    \/ send_event_to_all_return

SpecFanout == InitFanout /\ [][NextFanout]_vars

-----------------------------------------------------------------------------
(* utils.py: one call of clamp_event_time *)

\* the Facebook sink is configured
PixelConfigs == {c \in DeliveryConfigs : c.fb /\ c.google /\ c.auto}

\* the arguments of the model: 0 (or None), a negative value, past and
\* future times
ClampInputs == (0 - 1)..(MaxNow + 1)

clamp_event_time_call ==
    /\ pixel.pc = "idle"
    /\ \E ts \in ClampInputs, now \in Times :
         pixel' = [pc |-> "clamped", ts |-> ts, now |-> now,
                   out |-> clamp_event_time(ts, now)]
    /\ UNCHANGED <<workerVars, sink, delivery, sessions>>

InitClamp == WorkerInit(PixelConfigs)

NextClamp == clamp_event_time_call

SpecClamp == InitClamp /\ [][NextClamp]_vars

-----------------------------------------------------------------------------
(* utils.py: build_event_id on two events *)

\* values of an identity field: empty, differing in case and in blanks
\* around, holding the separator of the key list
FieldValues ==
    {<<>>, <<"a">>, <<"A">>, <<" ", "a">>, <<"a", " ">>, <<"|">>, <<"a", "|">>}

\* the leads of the model: two identity fields vary, and one field that is
\* no identity field
IdLeads ==
    [telegram_id : FieldValues, external_id : FieldValues,
     click_id : {<<>>}, fbp : {<<>>}, fbc : {<<>>},
     gclid : {<<>>}, gbraid : {<<>>}, wbraid : {<<>>},
     utm_source : {<<"x">>, <<"y">>}]

IdTimes == {1, 2}

\* two calls build_event_id(event_name, lead, event_time), the first when
\* the clock reads 1 and the second later
build_event_id_calls ==
    /\ pixel.pc = "idle"
    /\ \E n1 \in EventTypes, n2 \in EventTypes, l1 \in IdLeads, l2 \in IdLeads,
          t1 \in IdTimes, t2 \in IdTimes, now2 \in 1..2 :
         pixel' = [pc |-> "ids",
                   a |-> [event_name |-> n1, lead |-> l1, event_time |-> t1, now |-> 1,
                          id |-> build_event_id(n1, l1, t1)],
                   b |-> [event_name |-> n2, lead |-> l2, event_time |-> t2, now |-> now2,
                          id |-> build_event_id(n2, l2, t2)]]
    /\ UNCHANGED <<workerVars, sink, delivery, sessions>>

InitEventId == WorkerInit(PixelConfigs)

NextEventId == build_event_id_calls

SpecEventId == InitEventId /\ [][NextEventId]_vars

-----------------------------------------------------------------------------
(* fb_google.py / utils.py: the event ids of the POSTs one processing       *)
(* attempt makes to the Facebook sink for the event of its entry            *)

\* the lead of the entry: event_time absent (0) or some time
PixelLeads ==
    [telegram_id : {<<"a">>}, external_id : {<<>>},
     click_id : {<<>>}, fbp : {<<>>}, fbc : {<<>>},
     gclid : {<<>>}, gbraid : {<<>>}, wbraid : {<<>>},
     event_time : Times]

\* process_entry calls send_event_with_retry(event, ld) (worker.py 114)
pixel_send_event_with_retry ==
    /\ pixel.pc = "idle"
    /\ \E et \in EventTypes, lead \in PixelLeads, now \in 1..MaxNow :
         pixel' = [pc |-> "fanout", et |-> et, lead |-> lead, now |-> now,
                   attempt |-> 0, ids |-> {}, posts |-> 0]
    /\ UNCHANGED <<workerVars, sink, delivery, sessions>>

\* send_event_fb (158-162): the payload is built once, when the clock reads
\* pixel.now, and _post_with_retry POSTs that payload 1 to FB_RETRY_MAX
\* times, sleeping between the POSTs; no POST is accepted
pixel_send_event_fb ==
    /\ pixel.pc = "fanout"
    /\ pixel.attempt < FanoutRetries
    /\ \E n \in RetryCounts \ {0}, dt \in 0..1 :
         /\ pixel.now + dt <= MaxNow
         /\ pixel' = [pixel EXCEPT
                !.pc = "backoff",
                !.ids = @ \cup {build_fb_payload(pixel.et, pixel.lead, pixel.now).event_id},
                !.posts = Min(@ + n, 2),
                !.now = @ + dt]
    /\ UNCHANGED <<workerVars, sink, delivery, sessions>>

\* send_event_with_retry, 262-263: attempt += 1;
\* asyncio.sleep(base_delay ** attempt + 0.2 * attempt), at least 1.7 s
pixel_backoff ==
    /\ pixel.pc = "backoff"
    /\ \E dt \in 1..2 :
         /\ pixel.now + dt <= MaxNow
         /\ pixel' = [pixel EXCEPT !.pc = "fanout", !.attempt = @ + 1, !.now = @ + dt]
    /\ UNCHANGED <<workerVars, sink, delivery, sessions>>

InitPixel == WorkerInit(PixelConfigs)

NextPixel ==
    \/ pixel_send_event_with_retry
    \/ pixel_send_event_fb
    \/ pixel_backoff

SpecPixel == InitPixel /\ [][NextPixel]_vars

-----------------------------------------------------------------------------
(* db.py: save_lead called by the worker, the bot and the sync job; every   *)
(* call runs db_sync in an executor thread, with a session of its own       *)

\* the `data` of a call: with or without event_key, with or without
\* user_data
StoreData ==
    [event_key : Keys \cup {NoKey},
     user_data : {EmptyMap, [username |-> "u"], [first_name |-> "f"]},
     custom_data : {EmptyMap}]

\* the `event_record` of a call: None or a record with a status
EventRecords == {NoEventRecord} \cup [status : {"success", "failed", "skipped"}]

\* save_lead(data, event_record) is called (156-170): db_sync starts
save_lead_call ==
    /\ Len(sessions) < MaxCalls
    /\ \E data \in StoreData, event_record \in EventRecords :
         sessions' = Append(sessions,
            [pc |-> "select", data |-> data, event_record |-> event_record,
             snap |-> NoRec, ret |-> "none"])
    /\ UNCHANGED <<workerVars, sink, delivery, pixel>>

\* lines 172-179: `if not ek: return False`; the SELECT by event_key
save_lead_select(c) ==
    /\ sessions[c].pc = "select"
    /\ LET ek == sessions[c].data.event_key
       IN sessions' =
            [sessions EXCEPT ![c] =
               IF ek = NoKey
               THEN [@ EXCEPT !.pc = "returned", !.ret = "no_key"]
               ELSE [@ EXCEPT !.pc = "commit", !.snap = store[ek]]]
    /\ UNCHANGED <<workerVars, sink, delivery, pixel>>

\* OperationalError (235-239) in every pass of `while retries > 0`:
\* `return False` after SaveRetries transactions
save_lead_unavailable(c) ==
    /\ sessions[c].pc = "select"
    /\ sessions[c].data.event_key # NoKey
    /\ SaveRetries > 0
    /\ sessions' = [sessions EXCEPT ![c].pc = "returned", ![c].ret = "unavailable"]
    /\ UNCHANGED <<workerVars, sink, delivery, pixel>>

\* lines 189-232: the UPDATE of the row the SELECT found, or the INSERT of a
\* new row, which the unique index rejects when a row with the event_key was
\* inserted since the SELECT (except Exception, 240-243: return False)
save_lead_commit(c) ==
    /\ sessions[c].pc = "commit"
    /\ LET call == sessions[c]
           ek == call.data.event_key
       IN IF call.snap = NoRec
          THEN IF event_key_unique(store, ek)
               THEN /\ store' = [store EXCEPT ![ek] =
                          Inserted(store[ek], InsertedRow(call.data, call.event_record))]
                    /\ sessions' = [sessions EXCEPT ![c].pc = "returned", ![c].ret = "true"]
               ELSE /\ UNCHANGED store
                    /\ sessions' = [sessions EXCEPT ![c].pc = "returned",
                                                    ![c].ret = "integrity"]
          ELSE /\ store' = [store EXCEPT ![ek] =
                     UpdatedRow(store[ek], call.snap, call.data, call.event_record)]
               /\ sessions' = [sessions EXCEPT ![c].pc = "returned", ![c].ret = "true"]
    /\ UNCHANGED <<stream, lastDelivered, pel, running, mainPc, local_queue, in_flight,
                   reclaimer, cfg, nextAid, sends, started, outcomes,
                   sink, delivery, pixel, bootstrap>>

InitStore == WorkerInit(PixelConfigs)

NextStore ==
    \/ save_lead_call
    \/ \E c \in DOMAIN sessions :
          \/ save_lead_select(c)
          \/ save_lead_unavailable(c)
          \/ save_lead_commit(c)

SpecStore == InitStore /\ [][NextStore]_vars

-----------------------------------------------------------------------------
(* db.py: get_unsent_leads *)
MaxLimit == 3
MaxCreated == 3

UnsentKeys == {"k1", "k2", "k3"}
Limits == 0..MaxLimit

\* the columns of a leads row the query reads: sent, created_at (the clock of
\* the inserting process, so two rows may carry the same value), user_data
LeadRows ==
    [none : {FALSE},
     user_data : {[telegram_id |-> 1], [telegram_id |-> 1, username |-> "u"]},
     sent : BOOLEAN,
     created_at : 1..MaxCreated]

Unsent_all(st) == {k \in DOMAIN st : st[k] # NoRec}
\* .filter(Lead.sent == False)
Unsent(st) == {k \in DOMAIN st : st[k] # NoRec /\ ~st[k].sent}

\* .order_by(Lead.created_at.asc()): the rows in an order in which created_at
\* never decreases; rows with the same created_at come in any order
OrderedBy(st, S) ==
    {s \in [1..Cardinality(S) -> S] :
        /\ \A i, j \in 1..Cardinality(S) : i # j => s[i] # s[j]
        /\ \A i, j \in 1..Cardinality(S) : i < j => st[s[i]].created_at <= st[s[j]].created_at}

\* lines 262-268: the values `rows` can take
unsent_rows(st, limit) == {Take(s, limit) : s \in OrderedBy(st, Unsent(st))}

\* line 269: [r.user_data for r in rows]
user_data_of(st, rows) == [j \in DOMAIN rows |-> st[rows[j]].user_data]

\* get_unsent_leads(limit) runs its query and returns
get_unsent_leads ==
    /\ \E limit \in Limits : \E rows \in unsent_rows(store, limit) :
         sessions' = <<[limit |-> limit, raised |-> FALSE, rows |-> rows,
                        ret |-> user_data_of(store, rows)]>>
    /\ UNCHANGED <<workerVars, sink, delivery, pixel>>

\* the query raises: except Exception (270-272) returns []
get_unsent_leads_error ==
    /\ \E limit \in Limits :
         sessions' = <<[limit |-> limit, raised |-> TRUE, rows |-> <<>>, ret |-> <<>>]>>
    /\ UNCHANGED <<workerVars, sink, delivery, pixel>>

\* a leads table of up to three rows, whatever their flags and creation times
InitUnsent ==
    /\ EmptyStream
    /\ ProcessInit(PixelConfigs)
    /\ store \in [UnsentKeys -> LeadRows \cup {NoRec}]

NextUnsent ==
    \/ get_unsent_leads
    \/ get_unsent_leads_error

SpecUnsent == InitUnsent /\ [][NextUnsent]_vars

-----------------------------------------------------------------------------
(* Properties *)

\* the step ends the attempt of task i
Ended(i) ==
    /\ i \in DOMAIN in_flight'
    /\ in_flight[i].pc # "done"
    /\ in_flight'[i].pc = "done"

\* what the attempt of a task that is about to end ends in
AttemptResult(t) ==
    IF t.pc # "created" THEN OutcomeOf(t)
    ELSE IF Falsy(parse_payload(stream[t.entry])) THEN "malformed" ELSE "crashed"

Successes == {"success", "skipped", "malformed"}
Failures == {"failed", "raised"}

Delivered == 1..lastDelivered
Acked == Delivered \ DOMAIN pel

\* C1: an entry leaves the pending-entries list only in a step that ends a
\* processing attempt of that entry in success (delivery success, skip or
\* malformed payload), and a step that ends an attempt in delivery failure or
\* in an exception of the delivery client leaves the pending-entries list as
\* it is.
C1_AckOnlyAfterSuccess ==
    [][ /\ \A e \in DOMAIN pel :
              e \notin DOMAIN pel' =>
                 \E i \in DOMAIN in_flight :
                    /\ Ended(i)
                    /\ in_flight[i].entry = e
                    /\ AttemptResult(in_flight[i]) \in Successes
        /\ \A i \in DOMAIN in_flight :
              Ended(i) /\ AttemptResult(in_flight[i]) \in Failures => pel' = pel
      ]_vars

\* a failed attempt has ended and its entry is still pending, while another
\* entry was acknowledged after a successful delivery
C1_Witness ==
    /\ \E e \in DOMAIN pel : outcomes[e] # {} /\ outcomes[e] \subseteq Failures
    /\ \E e \in Acked : "success" \in outcomes[e]

\* C7: the number of per-entry tasks inside process_entry never exceeds the
\* configured WORKER_CONCURRENCY, fresh and reclaimed entries together,
\* whatever waits in the local queue.
C7_ConcurrencyBound == Cardinality(Processing) <= cfg.concurrency

\* the pool is full, one of its tasks is the second attempt of a reclaimed
\* entry, and the local queue holds a backlog
C7_Witness ==
    /\ Cardinality(Processing) = cfg.concurrency
    /\ local_queue # <<>>
    /\ \E i \in Processing : started[in_flight[i].entry] = 2
    /\ \E i \in Processing : started[in_flight[i].entry] = 1

\* C8: a returned delivery is a success exactly when some sink result of one
\* of its fan-outs is ok, and it is a failure when every sink result of every
\* one of its fan-outs is a failure.
C8_FanoutPolicy ==
    delivery.pc = "returned" =>
       /\ delivery.status = "success" <=>
             \E j \in DOMAIN delivery.log :
                \E k \in DOMAIN delivery.log[j] : delivery.log[j][k] = "ok"
       /\ (/\ Len(delivery.log) = FanoutRetries
           /\ \A j \in DOMAIN delivery.log :
                 \A k \in DOMAIN delivery.log[j] : delivery.log[j][k] = "fail")
          => delivery.status = "failed"

\* a delivery returned success from a fan-out in which one sink was ok and
\* another failed
C8_Witness ==
    /\ delivery.pc = "returned"
    /\ delivery.status = "success"
    /\ LET last == delivery.log[Len(delivery.log)]
       IN /\ last["facebook"] = "ok"
          /\ "google" \in DOMAIN last
          /\ last["google"] = "fail"

\* the step ends the transaction of task i's save_lead call
Committed(i) ==
    /\ i \in DOMAIN in_flight'
    /\ in_flight[i].pc = "saving"
    /\ in_flight[i].db = "commit"
    /\ in_flight'[i].db = "ret"

\* the history stored under event_key k
HistoryOf(st, k) == IF st[k] = NoRec THEN <<>> ELSE st[k].event_history
SentOf(st, k) == IF st[k] = NoRec THEN FALSE ELSE st[k].sent

\* C2: when a processing attempt of a Lead entry with an event_key ends after
\* every sink call returned ok and the store was reachable, the entry is
\* acknowledged, its save_lead call has returned, the record of its event_key
\* has sent = true, and the derived Subscribe was POSTed.
C2_SuccessEndToEnd ==
    [][ \A i \in DOMAIN in_flight :
           LET t == in_flight[i]
           IN (/\ Ended(i)
               /\ t.pc = "saving"
               /\ EventOf(t.entry) = "Lead"
               /\ KeyOf(t) # NoKey
               /\ t.all_ok
               /\ t.saveRet # "unavailable")
              => /\ t.db = "ret"
                 /\ t.entry \notin DOMAIN pel'
                 /\ SentOf(store', KeyOf(t))
                 /\ \E k \in sends'[t.entry] : k[2] = "Subscribe"
      ]_vars

\* C4: when the transaction of save_lead ends for a failed attempt (the store
\* was reachable), the record of the event_key has the history it had before
\* plus the failed entry of this attempt, and its sent flag is what it was
\* (false for a new record).
C4_FailedAttemptRecorded ==
    [][ \A i \in DOMAIN in_flight :
           LET t == in_flight[i]
           IN (Committed(i) /\ t.event_record.status = "failed")
              => /\ store'[KeyOf(t)] # NoRec
                 /\ HistoryOf(store', KeyOf(t))
                       = Append(HistoryOf(store, KeyOf(t)), t.event_record)
                 /\ SentOf(store', KeyOf(t)) = SentOf(store, KeyOf(t))
      ]_vars

\* C5: an entry whose payload does not decode is acknowledged once a
\* processing attempt of it has started, is POSTed to no sink, gets no second
\* processing attempt, and no task processing it reaches save_lead.
C5_PoisonEntry ==
    \A e \in Delivered :
       parse_payload(stream[e]) = "None" =>
          /\ started[e] >= 1 => e \in Acked
          /\ sends[e] = {}
          /\ started[e] <= 1
          /\ \A i \in DOMAIN in_flight :
                in_flight[i].entry = e => in_flight[i].pc = "created"

\* C6: an entry that decodes and routes to neither Lead nor Subscribe is
\* POSTed to no sink and is acknowledged once an attempt of it has ended,
\* whatever save_lead returned; and when the transaction of its save_lead
\* ends, the record of its event_key has the history it had before plus the
\* skipped entry.
C6_UnroutableSkipped ==
    [][ /\ \A e \in Delivered :
              (parse_payload(stream[e]) # "None" /\ ~should_send_event(EventOf(e)))
                 => /\ sends[e] = {}
                    /\ outcomes[e] \subseteq {"skipped"}
                    /\ outcomes[e] # {} => e \in Acked
        /\ \A i \in DOMAIN in_flight :
              LET t == in_flight[i]
              IN (Committed(i) /\ t.event_record.status = "skipped")
                 => HistoryOf(store', KeyOf(t))
                       = Append(HistoryOf(store, KeyOf(t)), t.event_record)
      ]_vars

\* C9: with auto-subscribe enabled, an attempt of a Lead entry ends in
\* success, or acknowledges the entry, only if some sink accepted the Lead
\* event itself.
C9_LeadItselfAccepted ==
    [][ \A i \in DOMAIN in_flight :
           LET t == in_flight[i]
           IN (/\ Ended(i)
               /\ t.pc = "saving"
               /\ cfg.auto
               /\ EventOf(t.entry) = "Lead"
               /\ \/ AttemptResult(t) = "success"
                  \/ t.entry \in DOMAIN pel /\ t.entry \notin DOMAIN pel')
              => "Lead" \in t.accepted
      ]_vars

\* spec.md, Sink calls: success is any 2xx status
Is2xx(resp) == resp # NetworkError /\ resp \in 200..299

\* C10: a call of the per-sink sender with retry count N has made at most N
\* POSTs, none of them after a POST that got a success response, and when
\* all N failed it has returned ok = false with the error of the last one.
C10_PerSinkSender ==
    sink.pc # "idle" =>
       /\ Len(sink.posts) <= sink.retries
       /\ \A j \in 1..(Len(sink.posts) - 1) : ~Is2xx(sink.posts[j])
       /\ (/\ sink.pc = "returned"
           /\ sink.posts # <<>>
           /\ \A j \in DOMAIN sink.posts : ~Is2xx(sink.posts[j]))
          => /\ ~sink.ok
             /\ Len(sink.posts) = sink.retries
             /\ sink.error = ToString(sink.posts[Len(sink.posts)])

\* C3: an entry whose attempt failed, that is pending and idle for the
\* reclaim threshold, eventually gets a second processing attempt.
C3_FailedEntryRetried ==
    (/\ 1 \in DOMAIN pel
     /\ pel[1] >= AUTOCLAIM_MIN_IDLE_MS
     /\ outcomes[1] \cap Failures # {}
     /\ started[1] = 1) ~> (started[1] >= 2)

\* C11: a POST of the per-sink sender counts as a success (the call returns
\* ok) exactly when its response has a status from 200 to 299, and as a
\* failed attempt (the next attempt is due, nothing is returned ok) for every
\* other status and for a network error.
C11_SuccessIs2xx ==
    [][ (/\ sink.pc = "loop"
         /\ sink'.pc # "idle"
         /\ Len(sink'.posts) = Len(sink.posts) + 1)
        => LET resp == sink'.posts[Len(sink'.posts)]
           IN IF Is2xx(resp)
              THEN sink'.pc = "returned" /\ sink'.ok
              ELSE /\ sink'.pc = "loop"
                   /\ ~sink'.ok
                   /\ sink'.attempt = sink.attempt + 1
      ]_vars

\* C12: one call of the retry wrapper runs at most FanoutRetries fan-outs,
\* runs no fan-out after one in which some result was ok and none after it
\* has returned; it returns success when its last fan-out had an ok result,
\* and otherwise returns failed after exactly FanoutRetries fan-outs, raised
\* ones included.
C12_FanoutBound ==
    [][ /\ delivery.pc = "returned" => delivery' = delivery
        /\ delivery'.pc # "idle" =>
              LET log == delivery'.log
                  HasOk(j) == \E k \in DOMAIN log[j] : log[j][k] = "ok"
              IN /\ Len(log) <= FanoutRetries
                 /\ \A j \in 1..(Len(log) - 1) : ~HasOk(j)
                 /\ delivery'.pc = "returned" =>
                       IF log # <<>> /\ HasOk(Len(log))
                       THEN delivery'.status = "success"
                       ELSE /\ delivery'.status = "failed"
                            /\ Len(log) = FanoutRetries
      ]_vars

\* a delivery returned success from its third fan-out, after a fan-out that
\* raised and one in which every sink failed
C12_Witness ==
    /\ delivery.pc = "returned"
    /\ delivery.status = "success"
    /\ Len(delivery.log) = 3
    /\ delivery.log[1] = NoResults
    /\ delivery.log[2] # NoResults

\* C13: all the POSTs one processing attempt makes to the Facebook sink for
\* the event of its entry carry one event id, whatever the event_time of the
\* entry and however long the attempt takes.
C13_OneEventId ==
    pixel.pc \in {"fanout", "backoff"} => Cardinality(pixel.ids) <= 1

\* C16: two calls of build_event_id with the same event name, the same event
\* time and identity fields that are equal after trimming and lower-casing
\* return the same id, whenever they are made and whatever the other fields
\* of the two leads are.
C16_EventIdDeterministic ==
    pixel.pc = "ids" =>
       ((/\ pixel.a.event_name = pixel.b.event_name
         /\ pixel.a.event_time = pixel.b.event_time
         /\ \A j \in DOMAIN IdentityFields :
               LET f == IdentityFields[j]
                   Norm(str) == [x \in DOMAIN strip(str) |->
                                    IF strip(str)[x] = "A" THEN "a" ELSE strip(str)[x]]
               IN Norm(pixel.a.lead[f]) = Norm(pixel.b.lead[f]))
        => pixel.a.id = pixel.b.id)

\* two leads whose user ids differ in case and in blanks around, whose other
\* fields differ and that were hashed at different times got the same id
C16_Witness ==
    /\ pixel.pc = "ids"
    /\ pixel.a.lead.telegram_id = <<" ", "a">>
    /\ pixel.b.lead.telegram_id = <<"A">>
    /\ pixel.a.lead.external_id = pixel.b.lead.external_id
    /\ pixel.a.lead.utm_source # pixel.b.lead.utm_source
    /\ pixel.a.now # pixel.b.now
    /\ pixel.a.event_name = pixel.b.event_name
    /\ pixel.a.event_time = pixel.b.event_time
    /\ pixel.a.id = pixel.b.id

\* C17: two events that differ in the event name, in the event time or in a
\* normalized identity field get different strings to digest.
C17_EventIdDistinct ==
    pixel.pc = "ids" =>
       ((\/ pixel.a.event_name # pixel.b.event_name
         \/ pixel.a.event_time # pixel.b.event_time
         \/ \E j \in DOMAIN IdentityFields :
               norm(pixel.a.lead[IdentityFields[j]]) # norm(pixel.b.lead[IdentityFields[j]]))
        => pixel.a.id # pixel.b.id)

\* C18: clamp_event_time(ts) called at time now returns a time that is not
\* earlier than now minus DROP_OLD_DAYS - 1 days; it returns now for ts = 0
\* (or absent) and ts itself for any other ts that is not older than that.
C18_ClampEventTime ==
    pixel.pc = "clamped" =>
       LET horizon == pixel.now - (DROP_OLD_DAYS - 1) * Day
       IN /\ pixel.out >= horizon
          /\ pixel.ts = 0 => pixel.out = pixel.now
          /\ (pixel.ts # 0 /\ pixel.ts >= horizon) => pixel.out = pixel.ts

\* a time older than the window was raised to the start of the window
C18_Witness ==
    /\ pixel.pc = "clamped"
    /\ pixel.ts # 0
    /\ pixel.ts < pixel.now - (DROP_OLD_DAYS - 1) * Day
    /\ pixel.out = pixel.now - (DROP_OLD_DAYS - 1) * Day

\* C14: a call of a sink whose credentials are missing makes no POST and
\* returns the skip result, which is neither ok nor an error.
C14_MissingCredentialsSkip ==
    (/\ sink.pc # "idle"
     /\ \/ sink.platform = "facebook" /\ ~cfg.fb
        \/ sink.platform = "ga4" /\ ~cfg.google)
    => /\ sink.pc = "returned"
       /\ sink.posts = <<>>
       /\ sink.skip
       /\ ~sink.ok
       /\ sink.error = "None"

\* the Facebook sink has no credentials and its call has returned the skip
\* result
C14_Witness ==
    /\ sink.pc = "returned"
    /\ sink.platform = "facebook"
    /\ ~cfg.fb
    /\ sink.skip

\* C15: a delivery in which every sink result of every fan-out is a skip (no
\* sink failed, nothing raised) is not returned as failed and its fan-out is
\* not run again.
C15_SkipNotFailure ==
    (/\ delivery.pc = "returned"
     /\ delivery.log # <<>>
     /\ \A j \in DOMAIN delivery.log :
           /\ delivery.log[j] # NoResults
           /\ \A k \in DOMAIN delivery.log[j] : delivery.log[j][k] = "skip")
    => /\ delivery.status # "failed"
       /\ Len(delivery.log) = 1

\* the step is the commit of call c
StoreCommitted(c) ==
    /\ sessions[c].pc = "commit"
    /\ sessions'[c].pc = "returned"

\* C19: whatever upserts ran and however their steps interleaved, the table
\* has at most one row per event_key; an upsert whose lookup found the row of
\* its event_key ends in an update of that row (it returns True, its success
\* status is on the row), and no commit adds a row for an event_key that has
\* one.
C19_OneRecordPerKey ==
    [][ /\ \A k \in Keys : store'[k] # NoRec => store'[k].rows = 1
        /\ \A c \in DOMAIN sessions :
              StoreCommitted(c) =>
                 LET call == sessions[c]
                     ek == call.data.event_key
                 IN /\ store[ek] # NoRec =>
                          store'[ek] # NoRec /\ store'[ek].rows = store[ek].rows
                    /\ call.snap # NoRec =>
                          /\ sessions'[c].ret = "true"
                          /\ call.event_record.status = "success" => store'[ek].sent
                          /\ call.event_record.status \in {"failed", "skipped"}
                                => store'[ek].last_attempt_at
      ]_vars

\* two calls for one event_key both found no row and both went on to the
\* INSERT; one was rejected, and a third call updated the row
C19_Witness ==
    /\ store["k1"] # NoRec
    /\ \E c \in DOMAIN sessions : sessions[c].ret = "integrity"
    /\ \E c \in DOMAIN sessions :
          sessions[c].pc = "returned" /\ sessions[c].ret = "true" /\ sessions[c].snap # NoRec

\* C20: no step takes the sent flag of a record from true to false, whatever
\* the status of the history entry of the upsert that commits, or with no
\* history entry.
C20_SentMonotonic ==
    [][ \A k \in Keys : SentOf(store, k) => SentOf(store', k) ]_vars

\* upserts that had loaded a record with sent = true have committed, one with
\* a failed status and one with no history entry, and the record has
\* sent = true
C20_Witness ==
    /\ SentOf(store, "k1")
    /\ \A st \in {"failed", "none"} :
          \E c \in DOMAIN sessions :
             /\ sessions[c].pc = "returned"
             /\ sessions[c].ret = "true"
             /\ sessions[c].snap # NoRec
             /\ sessions[c].snap.sent
             /\ sessions[c].event_record.status = st

\* the calls for event_key k that have committed
CommittedCalls(k) ==
    {c \in DOMAIN sessions :
        /\ sessions[c].pc = "returned"
        /\ sessions[c].ret = "true"
        /\ sessions[c].data.event_key = k}

\* C21: a record has sent or last_sent_at set only if an upsert for its
\* event_key with a success history entry has committed, and the commit of an
\* upsert with a failed or skipped status, or with no history entry, leaves
\* sent and last_sent_at as they are (unset on a new record).
C21_SentOnlyOnSuccess ==
    [][ /\ \A k \in Keys :
              (store'[k] # NoRec /\ (store'[k].sent \/ store'[k].last_sent_at))
                 => \E c \in DOMAIN sessions' :
                       /\ sessions'[c].pc = "returned"
                       /\ sessions'[c].ret = "true"
                       /\ sessions'[c].data.event_key = k
                       /\ sessions'[c].event_record.status = "success"
        /\ \A c \in DOMAIN sessions :
              (StoreCommitted(c) /\ sessions[c].event_record.status # "success")
                 => LET ek == sessions[c].data.event_key
                    IN /\ SentOf(store', ek) = SentOf(store, ek)
                       /\ store'[ek] # NoRec =>
                             store'[ek].last_sent_at
                                = (store[ek] # NoRec /\ store[ek].last_sent_at)
      ]_vars

\* upserts with a failed status, with a skipped status and with no history
\* entry have committed for one event_key, and its record has neither sent
\* nor last_sent_at
C21_Witness ==
    /\ store["k1"] # NoRec
    /\ ~store["k1"].sent
    /\ ~store["k1"].last_sent_at
    /\ \A st \in {"failed", "skipped", "none"} :
          \E c \in CommittedCalls("k1") : sessions[c].event_record.status = st

\* C22: when two upserts with the same event_key and a success history entry
\* are the calls of a run and both have committed, there is one record for
\* the key, it has sent = true, and its history has exactly two entries.
C22_TwoSuccessUpserts ==
    (/\ Len(sessions) = 2
     /\ CommittedCalls("k1") = {1, 2}
     /\ sessions[1].data = sessions[2].data
     /\ sessions[1].event_record.status = "success"
     /\ sessions[2].event_record.status = "success")
    => /\ store["k1"] # NoRec
       /\ store["k1"].rows = 1
       /\ store["k1"].sent
       /\ Len(store["k1"].event_history) = 2

\* C23: when an upsert commits on an existing record, every key of the
\* stored user_data and custom_data is still there, a key of the maps the
\* upsert merges in (lines 181-183: the new user_data or its default, the new
\* custom_data with its priority_score) carries the new value, and a stored
\* key those maps do not have carries its stored value.
C23_MergePerKey ==
    [][ \A c \in DOMAIN sessions :
           LET call == sessions[c]
               ek == call.data.event_key
           IN (StoreCommitted(c) /\ call.snap # NoRec)
              => \A m \in {"user_data", "custom_data"} :
                    LET old == store[ek][m]
                        new == IF m = "user_data" THEN normalized_ud(call.data)
                                                  ELSE custom_of(call.data)
                        now == store'[ek][m]
                    IN /\ DOMAIN old \subseteq DOMAIN now
                       /\ \A k \in DOMAIN new : now[k] = new[k]
                       /\ \A k \in (DOMAIN old) \ (DOMAIN new) : now[k] = old[k]
      ]_vars

\* C24: a save_lead call of a task gives up (returns False) exactly when its
\* SaveRetries-th transaction has failed, each failed transaction using up
\* one retry; the task then goes on to its ack decision, which is the one of
\* the delivery alone (ack if and only if success or skip), and the main loop
\* keeps running.
C24_BoundedSaveRetries ==
    [][ \A i \in DOMAIN in_flight :
          LET t == in_flight[i]
              u == in_flight'[i]
          IN (i \in DOMAIN in_flight' /\ t.pc = "saving") =>
               /\ (u.pc = "saving" /\ u.retries # t.retries)
                     => (u.retries = t.retries - 1 /\ u.retries >= 0)
               /\ (u.pc = "saving" /\ u.saveRet = "unavailable")
                     => (u.retries = 0 /\ u.db = "ret" /\ store' = store)
               /\ (t.saveRet = "unavailable" /\ u # t)
                     => /\ u.pc = "done"
                        /\ pel' = IF ~t.raised /\ t.event_record.status \in {"success", "skipped"}
                                  THEN safe_ack(pel, t.entry) ELSE pel
                        /\ outcomes'[t.entry] = outcomes[t.entry] \cup {OutcomeOf(t)}
                        /\ running' /\ mainPc' = mainPc
      ]_vars

\* the first entry was delivered, its save gave up (nothing is stored for its
\* key) and it was acknowledged all the same; the worker then checked out
\* and started the second entry, whose save is at its last retry
C24_Witness ==
    /\ lastDelivered = 2
    /\ "success" \in outcomes[1]
    /\ 1 \notin DOMAIN pel
    /\ store[stream[1].event_key] = NoRec
    /\ \E i \in DOMAIN in_flight :
          /\ in_flight[i].entry = 2
          /\ in_flight[i].pc = "saving"
          /\ in_flight[i].retries = 1

\* C25: a get_unsent_leads(limit) call returns at most limit items and never
\* an item of a row whose sent flag is true; when its query ran, the items
\* are the user_data of min(limit, number of unsent rows) different rows,
\* in an order in which created_at never decreases, and no unsent row left
\* out was created before a row that is in.
C25_ListUnsent ==
    \A c \in DOMAIN sessions :
       LET call == sessions[c]
           n == Len(call.ret)
           unsent == {k \in UnsentKeys : store[k] # NoRec /\ store[k].sent = FALSE}
       IN /\ n <= call.limit
          /\ Len(call.rows) = n
          /\ \A j \in 1..n : /\ call.rows[j] \in unsent
                              /\ call.ret[j] = store[call.rows[j]].user_data
          /\ ~call.raised =>
                /\ n = Min(call.limit, Cardinality(unsent))
                /\ \A i, j \in 1..n : i < j =>
                       /\ call.rows[i] # call.rows[j]
                       /\ store[call.rows[i]].created_at <= store[call.rows[j]].created_at
                /\ \A k \in unsent \ {call.rows[j] : j \in 1..n} :
                       \A j \in 1..n : store[call.rows[j]].created_at <= store[k].created_at

\* three rows, the oldest one sent, the two others unsent and created at
\* different times: the call with limit 1 returned the older of the two
\* unsent rows and left the newer one out
C25_Witness ==
    /\ \A k \in UnsentKeys : store[k] # NoRec
    /\ store["k1"].sent /\ store["k1"].created_at = 1
    /\ ~store["k2"].sent /\ store["k2"].created_at = 3
    /\ ~store["k3"].sent /\ store["k3"].created_at = 2
    /\ sessions # <<>>
    /\ sessions[1].limit = 1
    /\ sessions[1].rows = <<"k3">>
    /\ ~sessions[1].raised

\* the entries a step appends to the local queue without reading the stream
Readmitted ==
    IF lastDelivered' = lastDelivered /\ in_flight' = in_flight
       /\ Len(local_queue') > Len(local_queue)
    THEN {local_queue'[j] : j \in (Len(local_queue) + 1)..Len(local_queue')}
    ELSE {}

\* C26: the entries a reclaim round appends to the local queue were pending
\* and idle for at least AUTOCLAIM_MIN_IDLE_MS when the round ran, there are
\* at most AUTOCLAIM_BATCH of them, and a pending entry idle for less is not
\* among them and keeps its idle time.
C26_ReclaimThreshold ==
    [][ /\ \A e \in Readmitted : e \in DOMAIN pel /\ pel[e] >= AUTOCLAIM_MIN_IDLE_MS
        /\ Cardinality(Readmitted) <= AUTOCLAIM_BATCH
        /\ Readmitted # {} =>
              \A e \in DOMAIN pel :
                 pel[e] < AUTOCLAIM_MIN_IDLE_MS => (e \notin Readmitted /\ pel'[e] = pel[e])
      ]_vars

\* a round has re-admitted a full batch: both are queued with their idle
\* time reset, a third entry idle for as long was left pending
C26_Witness ==
    /\ Len(local_queue) = AUTOCLAIM_BATCH
    /\ \A j \in 1..Len(local_queue) : local_queue[j] \in DOMAIN pel /\ pel[local_queue[j]] = 0
    /\ \E e \in DOMAIN pel : pel[e] >= AUTOCLAIM_MIN_IDLE_MS
    /\ started = [e \in DOMAIN started |-> 0]

\* C27: once an entry is acknowledged, no processing attempt of it is started
\* and no sink call is made for it again.
C27_AckedIsTerminal ==
    [][ \A e \in Acked :
           /\ started'[e] = started[e]
           /\ sends'[e] = sends[e]
      ]_vars

\* process_batch has read `running` as false and left `while running`
Observed == mainPc \in {"shutdown_wait", "done"}

\* C28: once process_batch has seen the shutdown flag it stays out of its
\* loop: nothing more is read from the stream, nothing is taken from the
\* local queue and no task is created; when tasks are in flight at that
\* moment it waits for them with the reclaimer left as it is, and the
\* reclaimer is cancelled only in the step that ends that wait (or that
\* finds nothing to wait for).
C28_ShutdownOrder ==
    [][ /\ Observed =>
              /\ Observed'
              /\ lastDelivered' = lastDelivered
              /\ nextAid' = nextAid
              /\ Len(in_flight') = Len(in_flight)
              /\ \A i \in DOMAIN in_flight : in_flight[i].pc = "done" => in_flight'[i] = in_flight[i]
              /\ Len(local_queue') >= Len(local_queue)
              /\ SubSeq(local_queue', 1, Len(local_queue)) = local_queue
        /\ (~Observed /\ Observed' /\ in_flight' # <<>>) =>
              (mainPc' = "shutdown_wait" /\ reclaimer' = reclaimer)
        /\ (reclaimer # "cancelled" /\ reclaimer' = "cancelled") =>
              /\ mainPc' = "done"
              /\ mainPc = "shutdown_wait" \/ in_flight' = <<>>
      ]_vars

\* process_batch has returned after a wait that ended with a task still
\* running; the reclaimer, cancelled at the end, had re-admitted an entry
\* during the wait, which is left in the local queue
C28_Witness ==
    /\ mainPc = "done"
    /\ reclaimer = "cancelled"
    /\ local_queue # <<>>
    /\ \E i \in DOMAIN in_flight : in_flight[i].pc \in {"sending", "saving"}

\* C29: when process_batch has returned, every entry that was delivered to
\* this worker and that no attempt has ended in success for (its task
\* abandoned after the wait, still in the local queue, or failed) is in the
\* pending-entries list.
C29_NothingLostAtExit ==
    mainPc = "done" =>
       \A e \in Delivered : outcomes[e] \cap Successes = {} => e \in DOMAIN pel

\* process_batch has returned with a task abandoned in the middle of its
\* attempt and with an entry in the local queue that was never started: both
\* entries are pending
C29_Witness ==
    /\ mainPc = "done"
    /\ \E i \in DOMAIN in_flight :
          /\ in_flight[i].pc \in {"sending", "saving"}
          /\ in_flight[i].entry \in DOMAIN pel
    /\ \E j \in DOMAIN local_queue :
          /\ started[local_queue[j]] = 0
          /\ local_queue[j] \in DOMAIN pel

\* C30: the worker leaves its bootstrap and runs only with the group in
\* place, so nothing is checked out without it; when XGROUP CREATE answered
\* that the group exists, startup went on; when it failed in any other way,
\* startup was aborted and nothing was ever checked out.
C30_Bootstrap ==
    /\ mainPc \notin {"import", "aborted"} => bootstrap.group
    /\ (lastDelivered > 0 \/ nextAid > 0 \/ DOMAIN pel # {}) => bootstrap.group
    /\ bootstrap.reply = BusyGroup => mainPc \notin {"import", "aborted"}
    /\ bootstrap.reply \in {WrongType, ConnectionError} =>
          /\ mainPc = "aborted"
          /\ lastDelivered = 0 /\ nextAid = 0 /\ DOMAIN pel = {}

\* XGROUP CREATE answered BUSYGROUP, startup went on and the worker has
\* checked out two entries
C30_Witness ==
    /\ bootstrap.reply = BusyGroup
    /\ lastDelivered = 2
    /\ nextAid > 0

\* the sink calls of the running fan-out that carry a derived event
DerivedCalls ==
    IF delivery.pc = "idle" THEN {}
    ELSE {j \in DOMAIN delivery.calls :
            delivery.calls[j].key \in {"facebook_subscribe", "google_subscribe"}}

\* C31: a fan-out that returned has sent a derived Subscribe exactly when its
\* event type was Lead, auto-subscribe is on and the lead it was given did
\* not carry the suppression tag; every derived call carries the tag and the
\* event Subscribe; a fan-out that is given the lead of a derived call makes
\* no derived call; the lead the fan-out was given is sent as it was given.
C31_AutoSubscribeOnce ==
    delivery.pc # "idle" =>
       /\ delivery.pc = "returned" =>
             (DerivedCalls # {} <=>
                 (delivery.et \in {"Lead", "lead"} /\ cfg.auto /\ delivery.arg.suppress # "True"))
       /\ \A j \in DerivedCalls :
             /\ delivery.calls[j].event = "Subscribe"
             /\ delivery.calls[j].lead.suppress = "True"
       /\ delivery.chain >= 1 => DerivedCalls = {}
       /\ delivery.chain <= 1
       /\ delivery.lead = delivery.arg
       /\ \A j \in DOMAIN delivery.calls :
             j \notin DerivedCalls => delivery.calls[j].lead = delivery.arg

\* the lead of a derived Subscribe went through a Lead fan-out with
\* auto-subscribe on, and that fan-out returned after its sink calls
C31_Witness ==
    /\ delivery.pc = "returned"
    /\ delivery.chain = 1
    /\ delivery.et = "Lead"
    /\ cfg.auto /\ cfg.google
    /\ Len(delivery.calls) = 2

\* C35: when a fan-out has ended, however its first sink call ended, the
\* second sink (when configured) was attempted, and every sink call made has
\* its result in the results under its own key.
C35_SinksIndependent ==
    (delivery.pc \in {"returned", "raised"} /\ cfg.google) =>
       /\ \E j \in DOMAIN delivery.calls : delivery.calls[j].key = "google"
       /\ \A j \in DOMAIN delivery.calls :
             delivery.calls[j].key \in DOMAIN delivery.results

\* C38: no attempt ends with process_entry raising, whatever JSON value the
\* payload field holds; every attempt that ends gives an (entry_id, success)
\* outcome.
C38_AnyPayloadShape ==
    \A e \in DOMAIN outcomes : "crashed" \notin outcomes[e]

\* C32: every attempt that got to its sink or store calls ends in a step
\* that returns (entry_id, success): the outcome is that of the delivery
\* (success, failed, skipped, or failed after an exception of the delivery
\* client), it is recorded, and the entry is acknowledged accordingly,
\* whatever the sink calls and the transactions of save_lead did.
C32_FailuresAbsorbed ==
    [][ \A i \in DOMAIN in_flight :
          (Ended(i) /\ in_flight[i].pc # "created") =>
             LET t == in_flight[i]
                 res == IF t.raised THEN "raised" ELSE t.event_record.status
             IN /\ t.pc = "saving" /\ t.db = "ret"
                /\ res \in {"success", "failed", "skipped", "raised"}
                /\ outcomes'[t.entry] = outcomes[t.entry] \cup {res}
                /\ pel' = IF res \in {"success", "skipped"}
                          THEN safe_ack(pel, t.entry) ELSE pel
      ]_vars

\* one attempt ended after the delivery client raised, another after a
\* failed delivery, and the store took neither record
C32_Witness ==
    /\ "raised" \in outcomes[1]
    /\ "failed" \in outcomes[2]
    /\ \A k \in Keys : store[k] = NoRec

\* C33: while the worker runs, process_batch is suspended again and again
\* (so that the event loop can run the reclaimer and the tasks), and the
\* reclaimer, created at the start of process_batch, gets to run.
C33_LoopYields ==
    /\ []<>LoopFree
    /\ <>(reclaimer # "created")

\* C34: no two tasks of in_flight are inside process_entry for the same
\* entry id at the same time.
C34_OneTaskPerEntry ==
    \A i, j \in Processing : i # j => in_flight[i].entry # in_flight[j].entry

\* C36: once the shutdown flag is set, process_batch returns: it has left
\* its loop, ended its wait for the tasks in flight (whether there were any,
\* and whether they ever complete) and cancelled the reclaimer.
C36_ShutdownTerminates ==
    (~running) ~> (mainPc = "done" /\ reclaimer \in {"cancelled", "finished"})

\* process_batch has returned on a signal that came before any entry was
\* checked out: nothing was in flight, the reclaimer had not even started
C36_Witness ==
    /\ ~running
    /\ mainPc = "done"
    /\ lastDelivered = 0
    /\ in_flight = <<>>
    /\ reclaimer = "cancelled"

\* C37: an error raised by xreadgroup inside `while running` is caught: the
\* loop goes to its two-second pause and from there back to the top of the
\* loop, where it checks out again; the step that catches the error leaves
\* the unfinished tasks, the pending entries, the local queue, the stream
\* and the store as they were, and process_batch returns only once the
\* shutdown flag is set.
C37_ReadErrorSurvived ==
    [][ /\ (mainPc # "sleep2" /\ mainPc' = "sleep2") =>
              /\ running /\ running'
              /\ Pruned(in_flight') = Pruned(in_flight)
              /\ UNCHANGED <<stream, lastDelivered, pel, local_queue, reclaimer, store>>
        /\ (mainPc = "sleep2" /\ mainPc' # "sleep2") => mainPc' = "top"
        /\ (mainPc # "done" /\ mainPc' = "done") => ~running
      ]_vars

\* the loop is in its pause after a read error while a task is in the middle
\* of process_entry and an entry is pending
C37_Witness ==
    /\ mainPc = "sleep2"
    /\ running
    /\ \E i \in DOMAIN in_flight : in_flight[i].pc \notin {"created", "done"}
    /\ DOMAIN pel # {}

\* C39: in a step that acknowledges an entry whose attempt ended in
\* "success", the store has a row for the entry's event_key and the row's
\* sent flag is true.
C39_AckedSuccessStored ==
    [][ \A e \in DOMAIN pel :
           (e \notin DOMAIN pel' /\ "success" \in outcomes'[e] \ outcomes[e]) =>
              /\ stream[e].event_key # NoKey
              /\ store'[stream[e].event_key] # NoRec
              /\ store'[stream[e].event_key].sent
      ]_vars

\* two save_lead calls for one event_key that ran their SELECT on the same
\* state of the table (neither had committed when the other looked the row
\* up) and have both returned, the database being available
ConcurrentUpserts ==
    {pair \in (DOMAIN sessions) \X (DOMAIN sessions) :
        LET c == sessions[pair[1]]
            d == sessions[pair[2]]
        IN /\ pair[1] < pair[2]
           /\ c.pc = "returned" /\ d.pc = "returned"
           /\ c.data.event_key # NoKey
           /\ c.data.event_key = d.data.event_key
           /\ c.ret # "unavailable" /\ d.ret # "unavailable"
           /\ c.snap = d.snap}

\* C40: when two save_lead calls for one event_key have run concurrently,
\* both have returned True, the key has one row, the row's history has an
\* entry for each of the two calls that brought an event_record, and the
\* row's user_data has every key of the user_data of both calls.
C40_ConcurrentUpsertsBothApply ==
    \A pair \in ConcurrentUpserts :
       LET c == sessions[pair[1]]
           d == sessions[pair[2]]
           row == store[c.data.event_key]
       IN /\ c.ret = "true" /\ d.ret = "true"
          /\ row # NoRec
          /\ row.rows = 1
          /\ Len(row.event_history)
                >= Cardinality({x \in {pair[1], pair[2]} :
                                   sessions[x].event_record # NoEventRecord})
          /\ \A k \in DOMAIN normalized_ud(c.data) \cup DOMAIN normalized_ud(d.data) :
                 k \in DOMAIN row.user_data

=============================================================================
